---- MODULE Spec2Model ----
(***************************************************************************)
(* Model of the dosing pipeline of diabetes-assistant-bot:                 *)
(*   - InsulinService (AddRatio / UpdateRatio / DeleteRatio / GetUserRatios)*)
(*   - the ratio lookup and dose computation of FoodAnalysisService        *)
(*   - the conversation handlers of Bot (callbacks, text, photo, command)  *)
(*   - retryWithBackoff in its two revisions                               *)
(*                                                                         *)
(* A time string "HH:MM" is the pair <<hour, minute>> of its two numeric   *)
(* fields; time.Parse("15:04", s) and timeToMinutes are modelled on that   *)
(* pair.  A ratio is kept in tenths (15 stands for 1.5 units per XE).      *)
(***************************************************************************)
EXTENDS Integers, Sequences, FiniteSets, TLC

\* ------------------------------------------------------------------ bounds
\* number of InsulinRatio rows that may be created in one behaviour
MaxCreates == 2

\* blood sugar records saved in one run
MaxRecords == 1

\* ----------------------------------------------------------------- domains
\* the one user whose events are handled (users.id)
User == 1

\* clock strings a user may type; <<24, 0>> is "24:00"
TimeInputs == {<<0, 0>>, <<8, 0>>, <<20, 0>>, <<24, 0>>}

\* numbers a user may type as a ratio, in tenths
NumberInputs == {0, 15}

\* texts "h:m" entered as the active insulin time: 0:00, 1:30, 25:00, 0:60
DurationInputs == {<<0, 0>>, <<1, 30>>, <<25, 0>>, <<0, 60>>}

\* minutes of the day at which time.Now() is sampled by AnalyzeFood
NowInputs == {0, 480, 720}

\* carbohydrate estimates (grams) the AI provider may return for a dish
CarbsInputs == {60}

\* absent clock string
NoTime == <<-1, -1>>

\* ------------------------------------------------ time strings and minutes
\* time.Parse("15:04", t) returns no error
ParseOK(t) == t[1] \in 0..23 /\ t[2] \in 0..59

\* timeToMinutes: the parse error is dropped, a zero time.Time gives 0
timeToMinutes(t) == IF ParseOK(t) THEN t[1] * 60 + t[2] ELSE 0

\* ORDER BY start_time ASC on zero padded VARCHAR(5) values
StartTimeLeq(a, b) == a[1] < b[1] \/ (a[1] = b[1] /\ a[2] <= b[2])

\* covered minutes of one period as both services add them up
PeriodMinutes(startTime, endTime) ==
    LET s == timeToMinutes(startTime)
        e == timeToMinutes(endTime)
    IN  IF e < s THEN (e + 24 * 60) - s ELSE e - s

RECURSIVE SumMinutes(_)
SumMinutes(rows) ==
    IF rows = {} THEN 0
    ELSE LET r == CHOOSE x \in rows : TRUE
         IN  PeriodMinutes(r.StartTime, r.EndTime) + SumMinutes(rows \ {r})

\* ---------------------------------------------------------- InsulinService
\* rows of one user: Where("user_id = ?", userID)
RowsOf(db, userID) == {r \in db : r.UserID = userID}

\* the overlap test of AddRatio: raw minutes, no midnight handling
AddRatioOverlaps(startTime, endTime, r) ==
    LET startMinutes  == timeToMinutes(startTime)
        endMinutes    == timeToMinutes(endTime)
        existingStart == timeToMinutes(r.StartTime)
        existingEnd   == timeToMinutes(r.EndTime)
    IN  \/ (startMinutes >= existingStart /\ startMinutes < existingEnd)
        \/ (endMinutes > existingStart /\ endMinutes <= existingEnd)
        \/ (startMinutes <= existingStart /\ endMinutes >= existingEnd)

\* the error AddRatio returns, "" for nil
AddRatioErr(db, userID, startTime, endTime) ==
    LET existingRatios == RowsOf(db, userID)
    IN  IF ~ParseOK(startTime) THEN "invalid start time format"
        ELSE IF ~ParseOK(endTime) THEN "invalid end time format"
        ELSE IF \E r \in existingRatios : AddRatioOverlaps(startTime, endTime, r)
             THEN "time period overlaps with existing ratio"
        ELSE IF SumMinutes(existingRatios) + PeriodMinutes(startTime, endTime) > 24 * 60
             THEN "total time coverage exceeds 24 hours"
        ELSE ""

\* the table after AddRatio: one row is created when no error is returned
AddRatioDB(db, id, userID, startTime, endTime, ratio) ==
    IF AddRatioErr(db, userID, startTime, endTime) = ""
    THEN db \cup {[ID |-> id, UserID |-> userID, StartTime |-> startTime,
                   EndTime |-> endTime, Ratio |-> ratio]}
    ELSE db

\* the overlap test of UpdateRatio: both sides get +24h when they cross midnight
UpdateRatioOverlaps(startTime, endTime, r) ==
    LET startMinutes  == timeToMinutes(startTime)
        rawEnd        == timeToMinutes(endTime)
        endMinutes    == IF rawEnd < startMinutes THEN rawEnd + 24 * 60 ELSE rawEnd
        existingStart == timeToMinutes(r.StartTime)
        rawExisting   == timeToMinutes(r.EndTime)
        existingEnd   == IF rawExisting < existingStart
                         THEN rawExisting + 24 * 60 ELSE rawExisting
    IN  \/ (startMinutes >= existingStart /\ startMinutes < existingEnd)
        \/ (endMinutes > existingStart /\ endMinutes <= existingEnd)
        \/ (startMinutes <= existingStart /\ endMinutes >= existingEnd)

\* the error UpdateRatio returns, "" for nil
UpdateRatioErr(db, userID, ratioID, startTime, endTime) ==
    LET existingRatios == {r \in RowsOf(db, userID) : r.ID # ratioID}
    IN  IF ~ParseOK(startTime) THEN "invalid start time format"
        ELSE IF ~ParseOK(endTime) THEN "invalid end time format"
        ELSE IF \E r \in existingRatios : UpdateRatioOverlaps(startTime, endTime, r)
             THEN "time period overlaps with existing ratio"
        ELSE IF SumMinutes(existingRatios) + PeriodMinutes(startTime, endTime) > 24 * 60
             THEN "total time coverage exceeds 24 hours"
        ELSE IF ~\E r \in RowsOf(db, userID) : r.ID = ratioID
             THEN "insulin ratio not found"
        ELSE ""

\* the table after UpdateRatio
UpdateRatioAnyOwner(db, userID, ratioID, startTime, endTime, ratio) ==
    {IF r.ID = ratioID
     THEN [r EXCEPT !.StartTime = startTime, !.EndTime = endTime, !.Ratio = ratio]
     ELSE r : r \in db}
UpdateRatioDB(db, userID, ratioID, startTime, endTime, ratio) ==
    IF UpdateRatioErr(db, userID, ratioID, startTime, endTime) = ""
    THEN {IF r.UserID = userID /\ r.ID = ratioID
          THEN [r EXCEPT !.StartTime = startTime, !.EndTime = endTime, !.Ratio = ratio]
          ELSE r : r \in db}
    ELSE db

\* the error DeleteRatio returns, "" for nil
DeleteRatioErr(db, userID, ratioID) ==
    IF \E r \in db : r.UserID = userID /\ r.ID = ratioID
    THEN "" ELSE "insulin ratio not found"

\* the table after DeleteRatio
DeleteRatioNone(db, userID, ratioID) == db
DeleteRatioDB(db, userID, ratioID) ==
    {r \in db : ~(r.UserID = userID /\ r.ID = ratioID)}

\* GetUserRatios: every listing ordered by start_time ASC (ties in any order)
GetUserRatios(db, userID) ==
    LET rows == RowsOf(db, userID)
        n    == Cardinality(rows)
    IN  {q \in [1..n -> rows] :
            /\ \A i, j \in 1..n : i # j => q[i] # q[j]
            /\ \A i, j \in 1..n : i < j => StartTimeLeq(q[i].StartTime, q[j].StartTime)}

\* ------------------------------------------- FoodAnalysisService.AnalyzeFood
\* the match test of the ratio loop
RatioMatchesSameDay(r, currentMinutes) ==
    /\ currentMinutes >= timeToMinutes(r.StartTime)
    /\ currentMinutes <= timeToMinutes(r.EndTime)
RatioMatches(r, currentMinutes) ==
    LET startMinutes == timeToMinutes(r.StartTime)
        endMinutes   == timeToMinutes(r.EndTime)
    IN  IF endMinutes < startMinutes
        THEN currentMinutes >= startMinutes \/ currentMinutes <= endMinutes
        ELSE currentMinutes >= startMinutes /\ currentMinutes <= endMinutes

\* the ratios the loop may end with: Find() has no ORDER BY, so any matching row
\* can be the first one; insulinRatio keeps its zero value when no row matches
FoundRatios(db, userID, currentMinutes) ==
    LET hits == {r \in RowsOf(db, userID) : RatioMatches(r, currentMinutes)}
    IN  IF hits = {} THEN {0} ELSE {r.Ratio : r \in hits}

\* breadUnits := result.Carbs / 12.0, in tenths of a bread unit
BreadUnitsPerTen(carbs) == carbs
BreadUnits(carbs) == (carbs * 10) \div 12

\* insulinUnits := breadUnits * insulinRatio, in hundredths of a unit
InsulinUnits(breadUnits, insulinRatio) == breadUnits * insulinRatio

\* the database.FoodAnalysis row AnalyzeFood creates
FoodAnalysis(userID, weight, resultWeight, carbs, marker, insulinRatio, at) ==
    [UserID       |-> userID,
     Weight       |-> IF weight <= 0 /\ resultWeight > 0 THEN resultWeight ELSE weight,
     Carbs        |-> carbs,
     BreadUnits   |-> BreadUnits(carbs),
     NoFoodText   |-> marker,
     InsulinRatio |-> insulinRatio,
     InsulinUnits |-> InsulinUnits(BreadUnits(carbs), insulinRatio),
     At           |-> at]

\* no analysis row was created by the handled event
NoAnalysis ==
    [UserID |-> 0, Weight |-> 0, Carbs |-> 0, BreadUnits |-> 0, NoFoodText |-> FALSE,
     InsulinRatio |-> 0, InsulinUnits |-> 0, At |-> -1]

\* the insulin line of the result caption
InsulinText(a) == IF a.InsulinRatio > 0 THEN "dose" ELSE "ratio not configured"

\* ------------------------------------------------------------ Bot helpers
doPeriodsOverlap(start1, end1, start2, end2) ==
    LET start1Min == timeToMinutes(start1)
        raw1      == timeToMinutes(end1)
        end1Min   == IF raw1 < start1Min THEN raw1 + 24 * 60 ELSE raw1
        start2Min == timeToMinutes(start2)
        raw2      == timeToMinutes(end2)
        end2Min   == IF raw2 < start2Min THEN raw2 + 24 * 60 ELSE raw2
    IN  \/ (start1Min <= start2Min /\ end1Min > start2Min)
        \/ (start1Min < end2Min /\ end1Min >= end2Min)
        \/ (start1Min >= start2Min /\ end1Min <= end2Min)

\* the per-user temp map: keys holds the keys present in the map.  The values
\* under "changes", "ratiosToDelete", "ratiosToUpdate" and "waitingForRatio"
\* are read by no handler; the map records their presence, the values
\* themselves are the changeset built by the update (variable changeset)
EmptyTemp ==
    [exists |-> TRUE, keys |-> {}, ratioID |-> 0, isEdit |-> FALSE,
     startTime |-> NoTime, endTime |-> NoTime]

\* no changeset was built by the handled update
NoChangeset == [changes |-> <<>>, ratiosToDelete |-> <<>>, ratiosToUpdate |-> <<>>]

\* no map is stored for the user
EmptyMapKept == EmptyTemp
NilTemp == [EmptyTemp EXCEPT !.exists = FALSE]

\* the changeset handleText builds for an edit, from the listing q
RECURSIVE EditChanges(_, _, _, _, _)
EditChanges(q, i, ratioID, startTime, endTime) ==
    IF i > Len(q) THEN NoChangeset
    ELSE
      LET r    == q[i]
          rest == EditChanges(q, i + 1, ratioID, startTime, endTime)
          covers == doPeriodsOverlap(startTime, endTime, r.StartTime, r.EndTime)
                    /\ ~doPeriodsOverlap(r.StartTime, r.EndTime, startTime, endTime)
          before == timeToMinutes(startTime) <= timeToMinutes(r.StartTime)
          newStart == IF before THEN endTime ELSE r.StartTime
          newEnd   == IF before THEN r.EndTime ELSE startTime
      IN  IF r.ID = ratioID
             \/ ~doPeriodsOverlap(startTime, endTime, r.StartTime, r.EndTime)
          THEN rest
          ELSE IF covers
          THEN [rest EXCEPT
                  !.changes = <<[op |-> "delete", StartTime |-> r.StartTime,
                                 EndTime |-> r.EndTime, NewStart |-> NoTime,
                                 NewEnd |-> NoTime]>> \o @,
                  !.ratiosToDelete = <<r.ID>> \o @]
          ELSE [rest EXCEPT
                  !.changes = <<[op |-> "change", StartTime |-> r.StartTime,
                                 EndTime |-> r.EndTime, NewStart |-> newStart,
                                 NewEnd |-> newEnd]>> \o @,
                  !.ratiosToUpdate = <<[ID |-> r.ID, StartTime |-> newStart,
                                        EndTime |-> newEnd]>> \o @]

\* the merge the delete_ratio_ callback proposes for the row at position i of q
DeleteChanges(q, i) ==
    LET del  == q[i]
        only == <<del.ID>>
        hasPrev == i > 1
        hasNext == i < Len(q)
        prev == q[IF hasPrev THEN i - 1 ELSE i]
        next == q[IF hasNext THEN i + 1 ELSE i]
        upd(row, s, e) == [ID |-> row.ID, StartTime |-> s, EndTime |-> e, Ratio |-> row.Ratio]
        chg(s, e, ns, ne) == [op |-> "change", StartTime |-> s, EndTime |-> e,
                              NewStart |-> ns, NewEnd |-> ne]
    IN  IF hasPrev /\ hasNext
        THEN IF timeToMinutes(prev.EndTime) < timeToMinutes(next.StartTime)
             THEN [ratiosToDelete |-> only, changes |-> <<chg(prev.StartTime, prev.EndTime, prev.StartTime, next.StartTime)>>,
                   ratiosToUpdate |-> <<upd(prev, prev.StartTime, next.StartTime)>>]
             ELSE [ratiosToDelete |-> only, changes |-> <<chg(prev.StartTime, next.EndTime, prev.StartTime, next.EndTime)>>,
                   ratiosToUpdate |-> <<upd(next, prev.StartTime, next.EndTime)>>]
        ELSE IF hasPrev
        THEN [ratiosToDelete |-> only, changes |-> <<chg(prev.StartTime, prev.EndTime, prev.StartTime, del.EndTime)>>,
              ratiosToUpdate |-> <<upd(prev, prev.StartTime, del.EndTime)>>]
        ELSE IF hasNext
        THEN [ratiosToDelete |-> only, changes |-> <<chg(next.StartTime, next.EndTime, del.StartTime, next.EndTime)>>,
              ratiosToUpdate |-> <<upd(next, del.StartTime, next.EndTime)>>]
        ELSE NoChangeset

\* ------------------------------------------------------------------ state
VARIABLES
    ratios,      \* the insulin_ratios table (rows not soft-deleted)
    nextID,      \* the next SERIAL id of insulin_ratios
    userStates,  \* Bot.userStates[user]
    tempData,    \* Bot.tempData[user]
    reply,       \* the message sent by the handler of the last update
    analysis,    \* the food_analyses row the last update created
    changeset,   \* the changeset the last update built and listed in its message
    crashed,     \* a handler panicked (no recover around handleUpdate)
    rImpl,       \* retryWithBackoff: revision in use
    rPc,         \* retryWithBackoff: position of the running call
    rReturned,   \* retryWithBackoff: what fn returned on its 1st, 2nd, ... call
    rAttempt,    \* retryWithBackoff: loop variable (attempt / i)
    rCalls,      \* retryWithBackoff: number of fn() invocations so far
    rLastErr,    \* retryWithBackoff: lastErr
    rDelays,     \* retryWithBackoff: backoff delays entered so far, seconds
    rWaited,     \* retryWithBackoff: seconds of backoff fully waited out
    rCancelled,  \* retryWithBackoff: ctx is cancelled
    rResult,     \* retryWithBackoff: returned error, "" for nil
    iImpl,       \* AnalyzeFoodImage: revision in use
    iPc,         \* AnalyzeFoodImage: position of the running call
    iIn,         \* AnalyzeFoodImage: arguments and the keys the service holds
    iUseOpenAI,  \* AnalyzeFoodImage: useOpenAI after the availability checks
    iWeight,     \* AnalyzeFoodImage: the local variable weight
    iLog,        \* AnalyzeFoodImage: provider sub-calls made so far
    iOut,        \* AnalyzeFoodImage: what the call returned
    jImpl,       \* extractJSON: revision in use
    jIn,         \* extractJSON: the argument s
    jOut,        \* extractJSON: the returned string
    bloodSugar,  \* the values of the blood_sugar_records rows of the user
    activeInsulinTime,  \* users.active_insulin_time of the user, minutes
    mImpl,        \* StateManager: the implementation in use
    mUserStates,  \* StateManager: stored state per user key
    mUserWeights, \* StateManager: stored weight per user key
    mTempData,    \* StateManager: stored temp data map per user key
    mPc,          \* StateManager: position of each goroutine inside SetTempData
    mLocal,       \* StateManager: each goroutine's local tempData of SetTempData
    mActor,       \* StateManager: the userID argument of the last operation
    mIdle,        \* StateManager: 24 hours have passed since the last write
    users,        \* the users table
    regPc,        \* RegisterUser: position of each goroutine's call
    regArg,       \* RegisterUser: telegramID of each goroutine's call
    regOut,       \* RegisterUser: what each goroutine's call returned
    aPc,          \* ratio text: position of each goroutine's handler
    aIn,          \* ratio text: period and ratio each goroutine's handler holds
    dImpl,        \* Bot.Start: revision in use
    dUpdates,     \* Bot.Start: the updates received so far, with their progress
    dChan,        \* Bot.Start: updates waiting in the updates channel, by number
    dLoop,        \* Bot.Start: the update the loop is handling itself, 0 at select
    fLabel,       \* confidence: the label of the last provider result
    fConfidences, \* confidence: the confidence column of the food_analyses rows
    fShown        \* confidence: the level written in the last result message

botVars   == <<ratios, nextID, userStates, tempData, reply, analysis, changeset,
               crashed>>
retryVars == <<rImpl, rPc, rReturned, rAttempt, rCalls, rLastErr, rDelays, rWaited,
               rCancelled, rResult>>
imageVars == <<iImpl, iPc, iIn, iUseOpenAI, iWeight, iLog, iOut>>
jsonVars  == <<jImpl, jIn, jOut>>
settingsVars == <<bloodSugar, activeInsulinTime>>
managerVars ==
    <<mImpl, mUserStates, mUserWeights, mTempData, mPc, mLocal, mActor, mIdle>>
registerVars == <<users, regPc, regArg, regOut>>
submitVars == <<aPc, aIn>>
startVars == <<dImpl, dUpdates, dChan, dLoop>>
confVars == <<fLabel, fConfidences, fShown>>
auxVars ==
    <<imageVars, jsonVars, settingsVars, managerVars, registerVars, submitVars,
      startVars,
      confVars>>
botRest ==
    <<retryVars, imageVars, jsonVars, managerVars, registerVars, submitVars, startVars,
      confVars>>
imageRest ==
    <<botVars, retryVars, jsonVars, settingsVars, managerVars, registerVars, submitVars,
      startVars,
      confVars>>
jsonRest ==
    <<botVars, retryVars, imageVars, settingsVars, managerVars, registerVars,
      submitVars, startVars,
      confVars>>
managerRest ==
    <<botVars, retryVars, imageVars, jsonVars, settingsVars, registerVars, submitVars,
      startVars,
      confVars>>
registerRest ==
    <<botVars, retryVars, imageVars, jsonVars, settingsVars, managerVars, submitVars,
      startVars,
      confVars>>
submitRest ==
    <<retryVars, imageVars, jsonVars, settingsVars, managerVars, registerVars,
      startVars,
      confVars>>
startRest ==
    <<botVars, retryVars, imageVars, jsonVars, settingsVars, managerVars, registerVars,
      submitVars,
      confVars>>
vars      == <<botVars, retryVars, auxVars>>

\* user states of Bot
stateNone                   == "none"
stateWaitingForInsulinRatio == "waiting_for_insulin_ratio"
stateWaitingForTimePeriod   == "waiting_for_time_period"
stateAnalyzingFood          == "analyzing_food"
stateWaitingForBloodSugar        == "waiting_for_blood_sugar"
stateWaitingForActiveInsulinTime == "waiting_for_active_insulin_time"

BotInit ==
    /\ ratios = {}
    /\ nextID = 1
    /\ userStates = stateNone
    /\ tempData = NilTemp
    /\ reply = ""
    /\ analysis = NoAnalysis
    /\ changeset = NoChangeset
    /\ crashed = FALSE

SettingsInit ==
    /\ bloodSugar = <<>>
    /\ activeInsulinTime = 0

RetryIdle ==
    /\ rImpl = "none"
    /\ rPc = "idle"
    /\ rReturned = <<>>
    /\ rAttempt = 0
    /\ rCalls = 0
    /\ rLastErr = ""
    /\ rDelays = <<>>
    /\ rWaited = 0
    /\ rCancelled = FALSE
    /\ rResult = ""

\* what one handled update leaves behind; the table, the state and the temp map
\* are given by the handler
Handled(msg, db, st, tmp) ==
    /\ reply' = msg
    /\ ratios' = db
    /\ userStates' = st
    /\ tempData' = tmp
    /\ analysis' = NoAnalysis
    /\ changeset' = NoChangeset
    /\ UNCHANGED <<nextID, crashed, retryVars, auxVars>>

\* an input that fails validation: the corrective message is sent and the
\* handler returns
RejectedAndReset(msg) == Handled(msg, ratios, stateNone, tempData)
Rejected(msg) == Handled(msg, ratios, userStates, tempData)

\* the same for an update that built a changeset and asked for confirmation
Proposed(cs, tmp) ==
    /\ reply' = "confirm changes"
    /\ changeset' = cs
    /\ tempData' = tmp
    /\ analysis' = NoAnalysis
    /\ UNCHANGED <<ratios, userStates, nextID, crashed, retryVars, auxVars>>

\* DeleteRatio for every listed row (clear_and_add_ratio, clear_ratios)
DeleteAll(db, userID) == {r \in db : r.UserID # userID}

\* ----------------------------------------------------- handleCallbackQuery
CallbackAnalyzeFood ==
    /\ ~crashed
    /\ Handled("send photo",
               ratios, stateAnalyzingFood, tempData)

CallbackInsulinRatio ==
    /\ ~crashed
    /\ Handled("ratio menu",
               ratios, userStates, tempData)

CallbackAddInsulinRatio ==
    /\ ~crashed
    /\ Handled("enter period",
               ratios, stateWaitingForTimePeriod, EmptyTemp)

CallbackBloodSugar ==
    /\ ~crashed
    /\ Handled("enter blood sugar", ratios, stateWaitingForBloodSugar, tempData)

CallbackActiveInsulinTime ==
    /\ ~crashed
    /\ Handled("enter duration", ratios, stateWaitingForActiveInsulinTime, tempData)

CallbackMainMenu ==
    /\ ~crashed
    /\ Handled("main menu",
               ratios, stateNone, tempData)

CallbackClearAndAddRatio ==
    /\ ~crashed
    /\ Handled("enter period",
               DeleteAll(ratios, User), stateWaitingForTimePeriod, EmptyTemp)

CallbackClearRatios ==
    /\ ~crashed
    /\ Handled("ratio menu",
               DeleteAll(ratios, User), userStates, tempData)

\* no case of the switch and neither prefix matches: the handler returns nil
CallbackConfirmChanges ==
    /\ ~crashed
    /\ Handled("(nothing)",
               ratios, userStates, tempData)

CallbackEditRatio ==
    /\ ~crashed
    /\ \E ratioID \in 1..MaxCreates :
        IF \E r \in RowsOf(ratios, User) : r.ID = ratioID
            THEN Handled("enter new period", ratios, stateWaitingForTimePeriod,
                         [EmptyTemp EXCEPT !.keys = {"ratioID", "isEdit"},
                                           !.ratioID = ratioID, !.isEdit = TRUE])
            ELSE Handled("ratio not found", ratios, userStates, tempData)

CallbackDeleteRatio ==
    /\ ~crashed
    /\ \E ratioID \in 1..MaxCreates :
       \E q \in GetUserRatios(ratios, User) :
        LET at == {i \in 1..Len(q) : q[i].ID = ratioID}
            i  == CHOOSE k \in at : TRUE
            cs == DeleteChanges(q, i)
        IN  IF at = {}
            THEN Handled("ratio not found", ratios, userStates, tempData)
            ELSE IF Len(q) = 1
            THEN Handled("ratio deleted", DeleteRatioDB(ratios, User, ratioID),
                         userStates, tempData)
            ELSE IF Len(cs.changes) > 0
            THEN Proposed(cs, [EmptyTemp EXCEPT
                                 !.keys = {"ratioID", "changes", "ratiosToDelete",
                                           "ratiosToUpdate"},
                                 !.ratioID = ratioID])
            ELSE Handled("ratio deleted", DeleteRatioDB(ratios, User, ratioID),
                         userStates, tempData)

\* ------------------------------------------------------------ handleCommand
CommandStart ==
    /\ ~crashed
    /\ Handled("main menu", ratios, stateNone, tempData)

\* --------------------------------------------------------------- handleText
\* a handler panics: nothing recovers it in Start, the process ends
Panic ==
    /\ reply' = "panic"
    /\ crashed' = TRUE
    /\ analysis' = NoAnalysis
    /\ changeset' = NoChangeset
    /\ UNCHANGED <<ratios, nextID, userStates, tempData, retryVars, auxVars>>

\* text that is neither "HH:MM-HH:MM", "H:MM" nor a number
TextOther ==
    /\ ~crashed
    /\ IF userStates \in {stateWaitingForBloodSugar, stateWaitingForInsulinRatio}
       THEN Rejected("enter a number")
       ELSE IF userStates = stateWaitingForTimePeriod
       THEN Rejected("bad period format")
       ELSE IF userStates = stateWaitingForActiveInsulinTime
       THEN Rejected("bad duration format")
       ELSE Handled("use the menu", ratios, userStates, tempData)

\* text of the form "start-end"
TextPeriod ==
    /\ ~crashed
    /\ IF userStates \in {stateWaitingForBloodSugar, stateWaitingForInsulinRatio}
       THEN Rejected("enter a number")
       ELSE IF userStates = stateWaitingForActiveInsulinTime
       THEN Rejected("bad duration format")
       ELSE IF userStates # stateWaitingForTimePeriod
       THEN Handled("use the menu", ratios, userStates, tempData)
       ELSE
        \E startTime \in TimeInputs, endTime \in TimeInputs :
        \E q \in GetUserRatios(ratios, User) :
        LET cs == EditChanges(q, 1, tempData.ratioID, startTime, endTime)
        IN  IF ~ParseOK(startTime)
            THEN Rejected("bad start time")
            ELSE IF ~ParseOK(endTime)
            THEN Rejected("bad end time")
            ELSE IF "isEdit" \in tempData.keys /\ tempData.isEdit /\ Len(cs.changes) > 0
            THEN Proposed(cs, [EmptyTemp EXCEPT
                                 !.keys = {"ratioID", "isEdit", "startTime", "endTime",
                                           "changes", "ratiosToDelete", "ratiosToUpdate",
                                           "waitingForRatio"},
                                 !.ratioID = tempData.ratioID, !.isEdit = TRUE,
                                 !.startTime = startTime, !.endTime = endTime])
            ELSE IF ~tempData.exists
            THEN Panic
            ELSE Handled("enter ratio", ratios, stateWaitingForInsulinRatio,
                         [tempData EXCEPT !.keys = @ \cup {"startTime", "endTime"},
                                          !.startTime = startTime, !.endTime = endTime])

\* case stateWaitingForBloodSugar once ParseFloat accepted the text:
\* BloodSugarService.AddRecord, then the state goes back to none
AddRecord(value) ==
    /\ Len(bloodSugar) < MaxRecords
    /\ bloodSugar' = Append(bloodSugar, value)
    /\ reply' = "blood sugar saved"
    /\ userStates' = stateNone
    /\ analysis' = NoAnalysis
    /\ changeset' = NoChangeset
    /\ UNCHANGED <<ratios, nextID, tempData, crashed, activeInsulinTime, botRest>>

\* case stateWaitingForActiveInsulinTime for a text "h:m" of two parts
SetActiveInsulinTime(d) ==
    IF d[1] < 0 \/ d[1] > 24
    THEN Rejected("bad hours")
    ELSE IF d[2] < 0 \/ d[2] > 59
    THEN Rejected("bad minutes")
    ELSE IF d[1] * 60 + d[2] = 0
    THEN Rejected("duration must not be zero")
    ELSE /\ activeInsulinTime' = d[1] * 60 + d[2]
         /\ reply' = "duration saved"
         /\ userStates' = stateNone
         /\ analysis' = NoAnalysis
         /\ changeset' = NoChangeset
         /\ UNCHANGED <<ratios, nextID, tempData, crashed, bloodSugar, botRest>>

\* text of the form "h:m"
TextDuration ==
    /\ ~crashed
    /\ IF userStates \in {stateWaitingForBloodSugar, stateWaitingForInsulinRatio}
       THEN Rejected("enter a number")
       ELSE IF userStates = stateWaitingForTimePeriod
       THEN Rejected("bad period format")
       ELSE IF userStates = stateWaitingForActiveInsulinTime
       THEN \E d \in DurationInputs : SetActiveInsulinTime(d)
       ELSE Handled("use the menu", ratios, userStates, tempData)

\* text that strconv.ParseFloat accepts
TextNumber ==
    /\ ~crashed
    /\ IF userStates = stateWaitingForTimePeriod
       THEN Rejected("bad period format")
       ELSE IF userStates = stateWaitingForActiveInsulinTime
       THEN Rejected("bad duration format")
       ELSE IF userStates = stateWaitingForBloodSugar
       THEN \E value \in NumberInputs : AddRecord(value)
       ELSE IF userStates # stateWaitingForInsulinRatio
       THEN Handled("use the menu", ratios, userStates, tempData)
       ELSE
        \E ratio \in NumberInputs :
        LET startTime == tempData.startTime
            endTime   == tempData.endTime
            isEdit    == "isEdit" \in tempData.keys /\ tempData.isEdit
            updErr    == UpdateRatioErr(ratios, User, tempData.ratioID, startTime, endTime)
            addErr    == AddRatioErr(ratios, User, startTime, endTime)
        IN  IF ratio <= 0
            THEN Rejected("ratio must be positive")
            ELSE IF ~({"startTime", "endTime"} \subseteq tempData.keys)
            THEN Panic
            ELSE IF isEdit
            THEN IF updErr # ""
                 THEN Rejected(updErr)
                 ELSE Handled("ratio updated",
                              UpdateRatioDB(ratios, User, tempData.ratioID,
                                            startTime, endTime, ratio),
                              stateNone, NilTemp)
            ELSE IF addErr # ""
            THEN Rejected(addErr)
            ELSE /\ nextID <= MaxCreates
                 /\ reply' = "ratio saved"
                 /\ ratios' = AddRatioDB(ratios, nextID, User, startTime, endTime, ratio)
                 /\ nextID' = nextID + 1
                 /\ userStates' = stateNone
                 /\ tempData' = NilTemp
                 /\ analysis' = NoAnalysis
                 /\ changeset' = NoChangeset
                 /\ UNCHANGED <<crashed, retryVars, auxVars>>

\* ---------------------------------------------------- photo: handlePhoto
\* what AnalyzeFoodImage hands back: an error, the no-food answer or a dish
AIOutcomes ==
    [kind : {"error", "nofood", "food"}, carbs : CarbsInputs, estWeight : {0, 150}]

Photo ==
    /\ ~crashed
    /\ IF userStates # stateAnalyzingFood
       THEN Handled("press analyze food first", ratios, userStates, tempData)
       ELSE
        \E caption \in {"", "150", "abc"}, ai \in AIOutcomes, now \in NowInputs :
        \E insulinRatio \in FoundRatios(ratios, User, now) :
        LET weight == IF caption = "150" THEN 150 ELSE 0
            resultWeight == IF weight > 0 THEN weight ELSE ai.estWeight
            carbs == IF ai.kind = "food" THEN ai.carbs ELSE 0
            a == FoodAnalysis(User, weight, resultWeight, carbs, ai.kind = "nofood",
                              insulinRatio, now)
        IN  IF caption = "abc"
            THEN Handled("bad weight format", ratios, userStates, tempData)
            ELSE IF ai.kind = "error"
            THEN Handled("analysis failed", ratios, userStates, tempData)
            ELSE /\ analysis' = a
                 /\ reply' = IF a.Carbs = 0 /\ a.Weight = 0 /\ a.NoFoodText
                             THEN "no food" ELSE InsulinText(a)
                 /\ userStates' = stateNone
                 /\ changeset' = NoChangeset
                 /\ UNCHANGED <<ratios, nextID, tempData, crashed, retryVars, auxVars>>

BotNext ==
    \/ CallbackAnalyzeFood
    \/ CallbackInsulinRatio
    \/ CallbackAddInsulinRatio
    \/ CallbackMainMenu
    \/ CallbackClearAndAddRatio
    \/ CallbackClearRatios
    \/ CallbackConfirmChanges
    \/ CallbackEditRatio
    \/ CallbackDeleteRatio
    \/ CommandStart
    \/ TextOther
    \/ TextPeriod
    \/ TextNumber
    \/ Photo

\* the flows of Bot that await a text: the callbacks that open them (add a
\* ratio, blood sugar, active insulin time), the one that leaves them, and
\* every text
TextNext ==
    \/ CallbackAddInsulinRatio
    \/ CallbackBloodSugar
    \/ CallbackActiveInsulinTime
    \/ CallbackMainMenu
    \/ TextOther
    \/ TextPeriod
    \/ TextNumber
    \/ TextDuration

\* ------------------------------------------- handlers package (UpdateHandler)
\* The revision that splits Bot into UpdateHandler, CallbackHandler,
\* CommandHandler and PhotoHandler over a state manager; userStates stands for
\* the manager's state of the user.  No handler of this revision stores a
\* positive weight, so GetUserWeight returns 0 and the caption decides.
handleAnalyzeFood ==
    /\ ~crashed
    /\ Handled("send photo", ratios, stateAnalyzingFood, tempData)

\* ClearTempData deletes the user's map
handleAddInsulinRatio ==
    /\ ~crashed
    /\ Handled("enter period", ratios, stateWaitingForTimePeriod, NilTemp)

handleClearRatios ==
    /\ ~crashed
    /\ Handled("ratio menu", DeleteAll(ratios, User), userStates, tempData)

handleMainMenu ==
    /\ ~crashed
    /\ Handled("main menu", ratios, stateNone, tempData)

CommandHandlerHandle ==
    /\ ~crashed
    /\ Handled("main menu", ratios, stateNone, tempData)

\* TextHandler.handleTimePeriod for a text "start-end"; SetTempData makes the
\* user's map when there is none
handleTimePeriod(startTime, endTime) ==
    IF ~ParseOK(startTime) THEN Rejected("bad start time")
    ELSE IF ~ParseOK(endTime) THEN Rejected("bad end time")
    ELSE IF startTime[1] < 0 \/ startTime[1] > 23
    THEN Rejected("start hour out of range")
    ELSE IF endTime[1] < 0 \/ endTime[1] > 24
    THEN Rejected("end hour out of range")
    ELSE IF endTime[1] = 24 /\ endTime[2] # 0
    THEN Rejected("minutes must be 00 with hour 24")
    ELSE Handled("enter ratio", ratios, stateWaitingForInsulinRatio,
                 [tempData EXCEPT !.exists = TRUE,
                                  !.keys = @ \cup {"startTime", "endTime"},
                                  !.startTime = startTime, !.endTime = endTime])

\* TextHandler.handleInsulinRatio for a text ParseFloat accepts
handleInsulinRatio(ratio) ==
    LET addErr == AddRatioErr(ratios, User, tempData.startTime, tempData.endTime)
    IN  IF ratio <= 0 THEN Rejected("ratio must be positive")
        ELSE IF ~(tempData.exists /\ "startTime" \in tempData.keys)
        THEN Handled("start time not found", ratios, userStates, tempData)
        ELSE IF "endTime" \notin tempData.keys
        THEN Handled("end time not found", ratios, userStates, tempData)
        ELSE IF addErr # "" THEN Rejected(addErr)
        ELSE /\ nextID <= MaxCreates
             /\ reply' = "ratio saved"
             /\ ratios' = AddRatioDB(ratios, nextID, User, tempData.startTime,
                                     tempData.endTime, ratio)
             /\ nextID' = nextID + 1
             /\ userStates' = stateNone
             /\ tempData' = NilTemp
             /\ analysis' = NoAnalysis
             /\ changeset' = NoChangeset
             /\ UNCHANGED <<crashed, retryVars, auxVars>>

\* TextHandler.Handle: the text is a number, "start-end", "h:m" or none of these
TextHandlerHandle ==
    /\ ~crashed
    /\ \E kind \in {"number", "period", "duration", "other"} :
        IF userStates = stateWaitingForBloodSugar
        THEN IF kind = "number" THEN \E value \in NumberInputs : AddRecord(value)
             ELSE Rejected("enter a number")
        ELSE IF userStates = stateWaitingForTimePeriod
        THEN IF kind = "period"
             THEN \E startTime \in TimeInputs, endTime \in TimeInputs :
                      handleTimePeriod(startTime, endTime)
             ELSE Rejected("bad period format")
        ELSE IF userStates = stateWaitingForInsulinRatio
        THEN IF kind = "number" THEN \E ratio \in NumberInputs : handleInsulinRatio(ratio)
             ELSE Rejected("enter a number")
        ELSE IF userStates = stateWaitingForActiveInsulinTime
        THEN IF kind = "duration" THEN \E d \in DurationInputs : SetActiveInsulinTime(d)
             ELSE Rejected("bad duration format")
        ELSE Handled("use the menu", ratios, userStates, tempData)

\* UpdateHandler.Handle passes every photo to PhotoHandler.Handle
PhotoHandlerHandle ==
    /\ ~crashed
    /\ \E caption \in {"", "150", "abc"}, ai \in AIOutcomes, now \in NowInputs :
       \E insulinRatio \in FoundRatios(ratios, User, now) :
        LET weight == IF caption = "150" THEN 150 ELSE 0
            resultWeight == IF weight > 0 THEN weight ELSE ai.estWeight
            carbs == IF ai.kind = "food" THEN ai.carbs ELSE 0
            a == FoodAnalysis(User, weight, resultWeight, carbs, ai.kind = "nofood",
                              insulinRatio, now)
        IN  IF caption = "abc"
            THEN Handled("bad weight format", ratios, userStates, tempData)
            ELSE IF ai.kind = "error"
            THEN Handled("analysis failed", ratios, userStates, tempData)
            ELSE /\ analysis' = a
                 /\ reply' = IF a.Carbs = 0 /\ a.NoFoodText
                             THEN "no food" ELSE InsulinText(a)
                 /\ userStates' = stateNone
                 /\ changeset' = NoChangeset
                 /\ UNCHANGED <<ratios, nextID, tempData, crashed, retryVars, auxVars>>

UpdateHandlerNext ==
    \/ handleAnalyzeFood
    \/ handleAddInsulinRatio
    \/ handleClearRatios
    \/ handleMainMenu
    \/ CommandHandlerHandle
    \/ TextHandlerHandle
    \/ PhotoHandlerHandle

\* --------------------------------------------------------- retryWithBackoff
\* the two revisions of retryWithBackoff, named after the files that hold them
Revisions == {"ai_service", "user_service"}

\* maxRetries at every call site (estimateWeight, analyzeImage)
RetryLimit == 3

\* what fn() returns: nil, a *googleapi.Error with code 429, with a code >= 500,
\* with another code, or an error of another type (empty response, no JSON in
\* the response, JSON that does not parse)
Outcomes == {"ok", "e429", "e5xx", "e4xx", "plain"}

\* err.(*googleapi.Error) succeeds
IsGoogleErr(out) == out \in {"e429", "e5xx", "e4xx"}

\* variant of Retryable: every error is retried
RetryableAny(impl, out) == out # "ok"

\* the error sends the loop on to another iteration instead of returning it
Retryable(impl, out) ==
    IF impl = "ai_service"
    THEN out = "e429"
    ELSE IF IsGoogleErr(out) THEN out \in {"e429", "e5xx"} ELSE TRUE

\* variant of LoopContinues: the loop ends one iteration early
LoopContinuesShort(impl, attempt, maxRetries) ==
    IF impl = "ai_service" THEN attempt < maxRetries ELSE attempt < maxRetries - 1

\* the loop condition: attempt <= maxRetries in one revision, i < maxRetries
\* in the other
LoopContinues(impl, attempt, maxRetries) ==
    IF impl = "ai_service" THEN attempt <= maxRetries ELSE attempt < maxRetries

\* a retryable error is followed by the select on the timer and ctx.Done()
Sleeps(impl, attempt, maxRetries) ==
    IF impl = "ai_service" THEN attempt < maxRetries ELSE TRUE

RECURSIVE Pow2(_)
Pow2(n) == IF n = 0 THEN 1 ELSE 2 * Pow2(n - 1)

\* variant of Delay: the same delay before every attempt
DelayFlat(impl, attempt) == 1

\* the backoff delay in seconds: 2^attempt capped at 60, or i + 1
Delay(impl, attempt) ==
    IF impl = "ai_service"
    THEN IF Pow2(attempt) > 60 THEN 60 ELSE Pow2(attempt)
    ELSE attempt + 1

\* the error returned when the loop runs out
Exhausted(impl, lastErr) ==
    IF impl = "ai_service" THEN "max retries exceeded" ELSE lastErr

\* variant of TakesDone: the wait is a time.Sleep that ignores the context
TakesDoneNever(cancelled) == FALSE

\* the select takes the ctx.Done() case: the context is cancelled before the
\* timer of the blocked select fires
TakesDone(cancelled) == cancelled

\* the loop moves to its next iteration, or runs out and returns
NextIteration(attempt, lastErr) ==
    /\ rAttempt' = attempt
    /\ IF LoopContinues(rImpl, attempt, RetryLimit)
       THEN rPc' = "call" /\ rResult' = rResult
       ELSE rPc' = "done" /\ rResult' = Exhausted(rImpl, lastErr)

\* retryWithBackoff(ctx, 3, fn) is entered
RetryStart ==
    /\ rPc = "idle"
    /\ rImpl' \in Revisions
    /\ rPc' = "call"
    /\ UNCHANGED <<rReturned, rAttempt, rCalls, rLastErr, rDelays, rWaited, rCancelled,
                   rResult, botVars, auxVars>>

\* one fn() call and the branch taken on its result
Invoke ==
    /\ rPc = "call"
    /\ \E out \in Outcomes :
        /\ rReturned' = Append(rReturned, out)
        /\ rCalls' = rCalls + 1
        /\ IF out = "ok"
           THEN /\ rPc' = "done"
                /\ rResult' = ""
                /\ UNCHANGED <<rLastErr, rDelays, rAttempt>>
           ELSE /\ rLastErr' = out
                /\ IF ~Retryable(rImpl, out)
                   THEN /\ rPc' = "done"
                        /\ rResult' = out
                        /\ UNCHANGED <<rDelays, rAttempt>>
                   ELSE IF Sleeps(rImpl, rAttempt, RetryLimit)
                   THEN /\ rPc' = "backoff"
                        /\ rDelays' = Append(rDelays, Delay(rImpl, rAttempt))
                        /\ UNCHANGED <<rResult, rAttempt>>
                   ELSE /\ NextIteration(rAttempt + 1, out)
                        /\ UNCHANGED rDelays
    /\ UNCHANGED <<rImpl, rWaited, rCancelled, botVars, auxVars>>

\* case <-time.After(delay): continue
BackoffElapsed ==
    /\ rPc = "backoff"
    /\ ~TakesDone(rCancelled)
    /\ rWaited' = rWaited + rDelays[Len(rDelays)]
    /\ NextIteration(rAttempt + 1, rLastErr)
    /\ UNCHANGED <<rImpl, rReturned, rCalls, rLastErr, rDelays, rCancelled, botVars, auxVars>>

\* case <-ctx.Done(): return ctx.Err()
BackoffCancelled ==
    /\ rPc = "backoff"
    /\ TakesDone(rCancelled)
    /\ rPc' = "done"
    /\ rResult' = "context canceled"
    /\ UNCHANGED <<rImpl, rReturned, rAttempt, rCalls, rLastErr, rDelays, rWaited,
                   rCancelled, botVars, auxVars>>

\* the caller's context is cancelled while retryWithBackoff runs
Cancel ==
    /\ rPc \in {"call", "backoff"}
    /\ ~rCancelled
    /\ rCancelled' = TRUE
    /\ UNCHANGED <<rImpl, rPc, rReturned, rAttempt, rCalls, rLastErr, rDelays, rWaited,
                   rResult, botVars, auxVars>>

RetryNext ==
    \/ RetryStart
    \/ Invoke
    \/ BackoffElapsed
    \/ BackoffCancelled
    \/ Cancel

\* --------------------------------------------------- AIService.AnalyzeFoodImage
\* weights (grams) passed to AnalyzeFoodImage: none declared, or a declared one
DeclaredWeights == {0, 150}

\* weights (grams) a successful estimateWeight returns
EstimatedWeights == {100, 200}

\* estimateWeight returned an error
EstimateFailed == -1

\* what analyzeWithGemini / analyzeWithOpenAI returns: an error, the no-food
\* answer (carbs 0) or a dish with its carbohydrates
AnalysisResults == {"error", "nofood", "food"}

\* the arguments of a call and the keys the service was built with; the
\* user_service.go revision has no OpenAI client and no useOpenAI argument
ImageInputs(impl) ==
    IF impl = "ai_service"
    THEN [weight : DeclaredWeights, useOpenAI : BOOLEAN,
          hasOpenAIKey : BOOLEAN, hasGeminiKey : BOOLEAN]
    ELSE [weight : DeclaredWeights, useOpenAI : {FALSE},
          hasOpenAIKey : {FALSE}, hasGeminiKey : BOOLEAN]

\* no call has returned
NoResult == [err |-> "(running)", Weight |-> 0, Carbs |-> 0, NoFood |-> FALSE]

\* the error returned before any provider is called, "" when the call goes on
AvailabilityErr(impl, in) ==
    IF impl = "ai_service"
    THEN IF in.useOpenAI /\ ~in.hasOpenAIKey /\ ~in.hasGeminiKey
         THEN "OpenAI requested but API key not provided"
         ELSE IF ~in.useOpenAI /\ ~in.hasGeminiKey /\ ~in.hasOpenAIKey
         THEN "Gemini requested but API key not provided"
         ELSE ""
    ELSE IF ~in.hasGeminiKey THEN "Gemini client not available" ELSE ""

\* useOpenAI after the two availability checks
KeptProvider(impl, in) == in.useOpenAI
SwitchedProvider(impl, in) ==
    IF impl = "ai_service"
    THEN IF in.useOpenAI /\ ~in.hasOpenAIKey THEN FALSE
         ELSE IF ~in.useOpenAI /\ ~in.hasGeminiKey THEN TRUE
         ELSE in.useOpenAI
    ELSE FALSE

\* the provider estimateWeight calls
EstimateProvider(impl, in, useOpenAI) ==
    IF impl = "ai_service"
    THEN IF useOpenAI /\ in.hasOpenAIKey THEN "openai"
         ELSE IF ~useOpenAI /\ in.hasGeminiKey THEN "gemini"
         ELSE IF in.hasGeminiKey THEN "gemini"
         ELSE "openai"
    ELSE "gemini"

\* the provider the image analysis calls
AnalysisProvider(useOpenAI) == IF useOpenAI THEN "openai" ELSE "gemini"

\* a failed weight estimation ends the call with its error
AbortsOnEstimateFailure(impl) == impl = "ai_service"

ImageIdle ==
    /\ iImpl = "none"
    /\ iPc = "idle"
    /\ iIn = [weight |-> 0, useOpenAI |-> FALSE, hasOpenAIKey |-> FALSE,
              hasGeminiKey |-> FALSE]
    /\ iUseOpenAI = FALSE
    /\ iWeight = 0
    /\ iLog = <<>>
    /\ iOut = NoResult

\* what NewAIService is given: whether each key is a non-empty string, and
\* whether genai.NewClient returns an error
ServiceInputs(impl) ==
    [geminiAPIKey : BOOLEAN,
     openaiAPIKey : IF impl = "ai_service" THEN BOOLEAN ELSE {FALSE},
     clientErr    : BOOLEAN]

\* a Gemini client was stored in the service
GeminiReady(keys) == keys.geminiAPIKey /\ ~keys.clientErr

\* NewAIService panics instead of returning a service
PanicsWithoutProvider(impl, keys) ==
    impl = "ai_service" /\ ~GeminiReady(keys) /\ ~keys.openaiAPIKey

\* NewAIService: the clients are created from the keys
NewAIService ==
    /\ iPc = "idle"
    /\ \E impl \in Revisions : \E keys \in ServiceInputs(impl) :
        /\ iImpl' = impl
        /\ iIn' = [iIn EXCEPT !.hasGeminiKey = GeminiReady(keys),
                              !.hasOpenAIKey = keys.openaiAPIKey]
        /\ iPc' = IF PanicsWithoutProvider(impl, keys) THEN "panic" ELSE "ready"
    /\ UNCHANGED <<iUseOpenAI, iWeight, iLog, iOut, imageRest>>

\* AnalyzeFoodImage is entered on the constructed service: the availability
\* checks
ImageStart ==
    /\ iPc = "ready"
    /\ \E in \in ImageInputs(iImpl) :
        /\ in.hasGeminiKey = iIn.hasGeminiKey
        /\ in.hasOpenAIKey = iIn.hasOpenAIKey
        /\ iImpl' = iImpl
        /\ iIn' = in
        /\ iWeight' = in.weight
        /\ iUseOpenAI' = SwitchedProvider(iImpl, in)
        /\ IF AvailabilityErr(iImpl, in) # ""
           THEN /\ iPc' = "done"
                /\ iOut' = [NoResult EXCEPT !.err = AvailabilityErr(iImpl, in)]
           ELSE /\ iPc' = IF in.weight <= 0 THEN "estimate" ELSE "analyze"
                /\ iOut' = iOut
    /\ UNCHANGED <<iLog, imageRest>>

\* weight <= 0: the estimateWeight sub-call and the branch on its error
ImageEstimate ==
    /\ iPc = "estimate"
    /\ \E est \in {EstimateFailed} \cup EstimatedWeights :
        /\ iLog' = Append(iLog, [call |-> "estimate",
                                 provider |-> EstimateProvider(iImpl, iIn, iUseOpenAI),
                                 weight |-> 0, ok |-> est # EstimateFailed])
        /\ IF est = EstimateFailed
           THEN IF AbortsOnEstimateFailure(iImpl)
                THEN /\ iPc' = "done"
                     /\ iOut' = [NoResult EXCEPT !.err = "failed to estimate weight"]
                     /\ iWeight' = iWeight
                ELSE /\ iPc' = "analyze"
                     /\ UNCHANGED <<iOut, iWeight>>
           ELSE /\ iPc' = "analyze"
                /\ iWeight' = est
                /\ iOut' = iOut
    /\ UNCHANGED <<iImpl, iIn, iUseOpenAI, imageRest>>

\* the image analysis sub-call and the result handed back
ImageAnalyze ==
    /\ iPc = "analyze"
    /\ \E res \in AnalysisResults : \E carbs \in CarbsInputs :
        /\ iLog' = Append(iLog, [call |-> "analyze",
                                 provider |-> AnalysisProvider(iUseOpenAI),
                                 weight |-> iWeight, ok |-> res # "error"])
        /\ iPc' = "done"
        /\ iOut' = IF res = "error"
                   THEN [NoResult EXCEPT !.err = "analysis failed"]
                   ELSE [err    |-> "",
                         Weight |-> IF iWeight > 0 THEN iWeight ELSE 0,
                         Carbs  |-> IF res = "food" THEN carbs ELSE 0,
                         NoFood |-> res = "nofood"]
    /\ UNCHANGED <<iImpl, iIn, iUseOpenAI, iWeight, imageRest>>

ImageNext ==
    \/ NewAIService
    \/ ImageStart
    \/ ImageEstimate
    \/ ImageAnalyze

\* ------------------------------------------------------------ extractJSON
\* A text is a sequence of symbols: the two braces, a space, a backtick
\* (written tick), and
\* the word json standing for any other run of characters.
MaxText == 6
Symbols == {"{", "}", " ", "tick", "json"}
Texts == UNION {[1..n -> Symbols] : n \in 0..MaxText}

\* the revisions of extractJSON: brace counting (ai_service.go:477,
\* user_service.go:731) and first/last brace (ai_service.go:1068,
\* user_service.go:352)
JSONRevisions == {"braceCount", "lastIndex"}

RECURSIVE ReplaceAll(_, _)
\* strings.ReplaceAll(s, old, ""): non-overlapping matches, left to right
ReplaceAll(s, old) ==
    IF Len(s) < Len(old) THEN s
    ELSE IF SubSeq(s, 1, Len(old)) = old
         THEN ReplaceAll(SubSeq(s, Len(old) + 1, Len(s)), old)
         ELSE <<Head(s)>> \o ReplaceAll(Tail(s), old)

RECURSIVE TrimSpace(_)
TrimSpace(s) ==
    IF s = <<>> THEN s
    ELSE IF Head(s) = " " THEN TrimSpace(Tail(s))
    ELSE IF s[Len(s)] = " " THEN TrimSpace(SubSeq(s, 1, Len(s) - 1))
    ELSE s

\* strings.Index / strings.LastIndex for a one-symbol needle; positions are
\* counted from 1 and 0 stands for the -1 of Go
Index(s, c) ==
    IF \E i \in 1..Len(s) : s[i] = c
    THEN CHOOSE i \in 1..Len(s) : s[i] = c /\ \A k \in 1..(i - 1) : s[k] # c
    ELSE 0
LastIndex(s, c) ==
    IF \E i \in 1..Len(s) : s[i] = c
    THEN CHOOSE i \in 1..Len(s) : s[i] = c /\ \A k \in (i + 1)..Len(s) : s[k] # c
    ELSE 0

RECURSIVE MatchingBrace(_, _, _, _)
\* the loop of the brace counting revision from position i on
MatchingBrace(s, start, i, braceCount) ==
    IF i > Len(s) THEN <<>>
    ELSE IF s[i] = "{" THEN MatchingBrace(s, start, i + 1, braceCount + 1)
    ELSE IF s[i] = "}"
         THEN IF braceCount - 1 = 0 THEN SubSeq(s, start, i)
              ELSE MatchingBrace(s, start, i + 1, braceCount - 1)
    ELSE MatchingBrace(s, start, i + 1, braceCount)

extractJSONBraceCount(s0) ==
    LET s == TrimSpace(ReplaceAll(ReplaceAll(s0, <<"tick", "tick", "tick", "json">>),
                                  <<"tick", "tick", "tick">>))
        start == Index(s, "{")
    IN  IF start = 0 THEN <<>> ELSE MatchingBrace(s, start, start, 0)

extractJSONLastIndex(s) ==
    LET start == Index(s, "{")
        end   == LastIndex(s, "}")
    IN  IF start = 0 THEN <<>>
        ELSE IF end = 0 \/ end <= start THEN <<>>
        ELSE SubSeq(s, start, end)

extractJSON(impl, s) ==
    IF impl = "braceCount" THEN extractJSONBraceCount(s) ELSE extractJSONLastIndex(s)

JSONIdle ==
    /\ jImpl = "none"
    /\ jIn = <<>>
    /\ jOut = <<>>

\* one call of extractJSON on the text of a model reply
ExtractCall ==
    /\ jImpl = "none"
    /\ \E impl \in JSONRevisions, s \in Texts :
        /\ jImpl' = impl
        /\ jIn' = s
        /\ jOut' = extractJSON(impl, s)
    /\ UNCHANGED jsonRest

JSONNext == ExtractCall

\* ------------------------------------------------------------- StateManager
\* Two users' keys in one state manager, used by concurrently running update
\* goroutines.  InMemoryManager runs every method under its mutex;
\* RedisManager.SetTempData reads the user's map, changes it locally and
\* writes it back, so other operations can run between the two commands.
Users == {1, 2}
Goroutines == {1, 2}
Managers == {"InMemoryManager", "RedisManager"}
StoredStates == {stateNone, stateAnalyzingFood}
StoredWeights == {0, 150}
TempKeys == {"startTime", "endTime"}
TempValues == {"08:00"}
Absent == "(absent)"
NoWeight == -1

\* a made map without entries, and no map under the user's key
EmptyMap == [exists |-> TRUE, data |-> [k \in TempKeys |-> Absent]]
NoMap == [exists |-> FALSE, data |-> [k \in TempKeys |-> Absent]]

\* delete(m.tempData, userID) / DEL user:<id>:temp, and the same for the
\* whole store
DeletedAll(store, userID) == [u \in Users |-> NoMap]
Deleted(store, userID) == [store EXCEPT ![userID] = NoMap]

\* tempData[key] = value on the map read for the user, made when missing
WithKey(map, key, value) ==
    [exists |-> TRUE,
     data |-> [(IF map.exists THEN map.data ELSE EmptyMap.data) EXCEPT ![key] = value]]

GetUserState(userID) ==
    IF mUserStates[userID] = Absent THEN stateNone ELSE mUserStates[userID]

GetUserWeight(userID) ==
    IF mUserWeights[userID] = NoWeight THEN 0 ELSE mUserWeights[userID]

ManagerIdle ==
    /\ mImpl = "none"
    /\ mUserStates = [u \in Users |-> Absent]
    /\ mUserWeights = [u \in Users |-> NoWeight]
    /\ mTempData = [u \in Users |-> NoMap]
    /\ mPc = [g \in Goroutines |-> "idle"]
    /\ mLocal = [g \in Goroutines |-> [userID |-> 0, map |-> NoMap]]
    /\ mActor = 0
    /\ mIdle = FALSE

NewManager ==
    /\ mImpl = "none"
    /\ mImpl' \in Managers
    /\ UNCHANGED <<mUserStates, mUserWeights, mTempData, mPc, mLocal, mActor, mIdle,
                   managerRest>>

SetUserState(g, userID, state) ==
    /\ mImpl # "none" /\ mPc[g] = "idle"
    /\ mUserStates' = [mUserStates EXCEPT ![userID] = state]
    /\ mActor' = userID
    /\ mIdle' = FALSE
    /\ UNCHANGED <<mImpl, mUserWeights, mTempData, mPc, mLocal, managerRest>>

SetUserWeight(g, userID, weight) ==
    /\ mImpl # "none" /\ mPc[g] = "idle"
    /\ mUserWeights' = [mUserWeights EXCEPT ![userID] = weight]
    /\ mActor' = userID
    /\ mIdle' = FALSE
    /\ UNCHANGED <<mImpl, mUserStates, mTempData, mPc, mLocal, managerRest>>

ClearTempData(g, userID) ==
    /\ mImpl # "none" /\ mPc[g] = "idle"
    /\ mTempData' = Deleted(mTempData, userID)
    /\ mActor' = userID
    /\ mIdle' = FALSE
    /\ UNCHANGED <<mImpl, mUserStates, mUserWeights, mPc, mLocal, managerRest>>

\* InMemoryManager.SetTempData, one critical section
SetTempData(g, userID, key, value) ==
    /\ mImpl = "InMemoryManager" /\ mPc[g] = "idle"
    /\ mTempData' = [mTempData EXCEPT ![userID] = WithKey(@, key, value)]
    /\ mActor' = userID
    /\ mIdle' = FALSE
    /\ UNCHANGED <<mImpl, mUserStates, mUserWeights, mPc, mLocal, managerRest>>

\* RedisManager.SetTempData up to the change of the local map
getTempDataMap(g, userID, key, value) ==
    /\ mImpl = "RedisManager" /\ mPc[g] = "idle"
    /\ mLocal' = [mLocal EXCEPT ![g] = [userID |-> userID,
                                        map |-> WithKey(mTempData[userID], key, value)]]
    /\ mPc' = [mPc EXCEPT ![g] = "save"]
    /\ mActor' = userID
    /\ UNCHANGED <<mImpl, mUserStates, mUserWeights, mTempData, mIdle, managerRest>>

\* RedisManager.SetTempData: saveTempDataMap writes the local map back
saveTempDataMap(g) ==
    /\ mPc[g] = "save"
    /\ mTempData' = [mTempData EXCEPT ![mLocal[g].userID] = mLocal[g].map]
    /\ mActor' = mLocal[g].userID
    /\ mPc' = [mPc EXCEPT ![g] = "idle"]
    /\ mLocal' = [mLocal EXCEPT ![g] = [userID |-> 0, map |-> NoMap]]
    /\ mIdle' = FALSE
    /\ UNCHANGED <<mImpl, mUserStates, mUserWeights, managerRest>>

\* GetTempData reports the key present
GetTempData(userID, key) ==
    mTempData[userID].exists /\ mTempData[userID].data[key] # Absent

\* what is left of a store when the lifetime of every entry has run out: Redis
\* drops a key 24 hours after the Set that wrote it, the maps of
\* InMemoryManager keep their entries
Expired(impl, store, none) ==
    IF impl = "RedisManager" THEN [u \in Users |-> none] ELSE store

\* 24 hours pass in which no operation writes to the store
WindowElapses ==
    /\ mImpl # "none"
    /\ ~mIdle
    /\ mIdle' = TRUE
    /\ mUserStates' = Expired(mImpl, mUserStates, Absent)
    /\ mUserWeights' = Expired(mImpl, mUserWeights, NoWeight)
    /\ mTempData' = Expired(mImpl, mTempData, NoMap)
    /\ UNCHANGED <<mImpl, mPc, mLocal, mActor, managerRest>>

\* the operations of one goroutine, and the passing of time
ExpiryNext ==
    \/ NewManager
    \/ \E u \in Users, s \in StoredStates : SetUserState(1, u, s)
    \/ \E u \in Users, w \in StoredWeights : SetUserWeight(1, u, w)
    \/ \E u \in Users : ClearTempData(1, u)
    \/ \E u \in Users, k \in TempKeys, v \in TempValues : SetTempData(1, u, k, v)
    \/ \E u \in Users, k \in TempKeys, v \in TempValues : getTempDataMap(1, u, k, v)
    \/ saveTempDataMap(1)
    \/ WindowElapses

ManagerNext ==
    \/ NewManager
    \/ \E g \in Goroutines, u \in Users, s \in StoredStates : SetUserState(g, u, s)
    \/ \E g \in Goroutines, u \in Users, w \in StoredWeights : SetUserWeight(g, u, w)
    \/ \E g \in Goroutines, u \in Users : ClearTempData(g, u)
    \/ \E g \in Goroutines, u \in Users, k \in TempKeys, v \in TempValues :
           SetTempData(g, u, k, v)
    \/ \E g \in Goroutines, u \in Users, k \in TempKeys, v \in TempValues :
           getTempDataMap(g, u, k, v)
    \/ \E g \in Goroutines : saveTempDataMap(g)

\* ------------------------------------------------------------- RegisterUser
\* UpdateHandler.Handle calls RegisterUser for every update, and Bot.Start
\* runs every update in its own goroutine.  All revisions of RegisterUser
\* (and gorm's FirstOrCreate) first SELECT by telegram_id and INSERT when no
\* row came back, as two statements outside a transaction; users.telegram_id
\* carries a unique index, so an INSERT of a present telegram_id fails.
TelegramIDs == {7, 9}

NoUser == [err |-> "(running)", ID |-> 0, TelegramID |-> 0]

\* WHERE telegram_id = ? ... First
UsersWith(telegramID) == {u \in users : u.TelegramID = telegramID}

RegisterIdle ==
    /\ users = {}
    /\ regPc = [g \in Goroutines |-> "idle"]
    /\ regArg = [g \in Goroutines |-> 0]
    /\ regOut = [g \in Goroutines |-> NoUser]

\* the SELECT: an existing user is returned, otherwise the call goes on to
\* create one
RegisterUserFirst(g, telegramID) ==
    /\ regPc[g] = "idle"
    /\ regArg' = [regArg EXCEPT ![g] = telegramID]
    /\ IF UsersWith(telegramID) # {}
       THEN \E u \in UsersWith(telegramID) :
               /\ regOut' = [regOut EXCEPT ![g] = [err |-> "", ID |-> u.ID,
                                                   TelegramID |-> u.TelegramID]]
               /\ regPc' = [regPc EXCEPT ![g] = "done"]
       ELSE /\ regOut' = [regOut EXCEPT ![g] = NoUser]
            /\ regPc' = [regPc EXCEPT ![g] = "create"]
    /\ UNCHANGED <<users, registerRest>>

\* the INSERT: refused by the unique index when the telegram_id is present
RegisterUserCreate(g) ==
    /\ regPc[g] = "create"
    /\ regPc' = [regPc EXCEPT ![g] = "done"]
    /\ IF UsersWith(regArg[g]) # {}
       THEN /\ regOut' = [regOut EXCEPT ![g] = [err |-> "failed to create user",
                                                ID |-> 0, TelegramID |-> 0]]
            /\ UNCHANGED users
       ELSE LET id == Cardinality(users) + 1
            IN  /\ users' = users \cup {[ID |-> id, TelegramID |-> regArg[g]]}
                /\ regOut' = [regOut EXCEPT ![g] = [err |-> "", ID |-> id,
                                                    TelegramID |-> regArg[g]]]
    /\ UNCHANGED <<regArg, registerRest>>

\* the goroutine ends; a later update starts another one
RegisterUserReturn(g) ==
    /\ regPc[g] = "done"
    /\ regPc' = [regPc EXCEPT ![g] = "idle"]
    /\ regArg' = [regArg EXCEPT ![g] = 0]
    /\ regOut' = [regOut EXCEPT ![g] = NoUser]
    /\ UNCHANGED <<users, registerRest>>

RegisterNext ==
    \/ \E g \in Goroutines, t \in TelegramIDs : RegisterUserFirst(g, t)
    \/ \E g \in Goroutines : RegisterUserCreate(g)
    \/ \E g \in Goroutines : RegisterUserReturn(g)

\* ------------------------------------- ratio texts in concurrent goroutines
\* Bot.Start runs UpdateHandler.Handle in one goroutine per update, so two
\* texts of one user run TextHandler.handleInsulinRatio side by side.  The
\* handler reads the state and the stored period, AddRatio reads the user's
\* rows (Find), tests them and inserts (Create) outside a transaction, then
\* the handler clears the temp data and the state.
NoSubmit == [startTime |-> NoTime, endTime |-> NoTime, ratio |-> 0]

SubmitIdle ==
    /\ aPc = [g \in Goroutines |-> "idle"]
    /\ aIn = [g \in Goroutines |-> NoSubmit]

\* TextHandler.Handle and handleInsulinRatio up to the call of AddRatio
RatioTextBegin(g, ratio) ==
    /\ ~crashed
    /\ aPc[g] = "idle"
    /\ userStates = stateWaitingForInsulinRatio
    /\ ratio > 0
    /\ tempData.exists /\ {"startTime", "endTime"} \subseteq tempData.keys
    /\ aPc' = [aPc EXCEPT ![g] = "find"]
    /\ aIn' = [aIn EXCEPT ![g] = [startTime |-> tempData.startTime,
                                  endTime |-> tempData.endTime, ratio |-> ratio]]
    /\ UNCHANGED <<botVars, submitRest>>

\* AddRatio: the Find of the user's rows and the tests on what it returned
AddRatioFind(g) ==
    /\ aPc[g] = "find"
    /\ LET err == AddRatioErr(ratios, User, aIn[g].startTime, aIn[g].endTime)
       IN  IF err # ""
           THEN /\ reply' = err
                /\ aPc' = [aPc EXCEPT ![g] = "idle"]
                /\ aIn' = [aIn EXCEPT ![g] = NoSubmit]
           ELSE /\ reply' = reply
                /\ aPc' = [aPc EXCEPT ![g] = "create"]
                /\ aIn' = aIn
    /\ UNCHANGED <<ratios, nextID, userStates, tempData, analysis, changeset, crashed,
                   submitRest>>

\* AddRatio: the Create of the row
AddRatioCreate(g) ==
    /\ aPc[g] = "create"
    /\ nextID <= MaxCreates
    /\ ratios' = ratios \cup {[ID |-> nextID, UserID |-> User,
                               StartTime |-> aIn[g].startTime,
                               EndTime |-> aIn[g].endTime, Ratio |-> aIn[g].ratio]}
    /\ nextID' = nextID + 1
    /\ aPc' = [aPc EXCEPT ![g] = "finish"]
    /\ UNCHANGED <<userStates, tempData, reply, analysis, changeset, crashed, aIn,
                   submitRest>>

\* handleInsulinRatio after AddRatio returned nil
RatioTextFinish(g) ==
    /\ aPc[g] = "finish"
    /\ tempData' = NilTemp
    /\ userStates' = stateNone
    /\ reply' = "ratio saved"
    /\ aPc' = [aPc EXCEPT ![g] = "idle"]
    /\ aIn' = [aIn EXCEPT ![g] = NoSubmit]
    /\ UNCHANGED <<ratios, nextID, analysis, changeset, crashed, submitRest>>

\* the clock strings of the periods submitted twice
SubmitTimes == {<<0, 0>>, <<8, 0>>}

\* TextHandler.Handle for a text "start-end" while the period is awaited
PeriodText ==
    /\ ~crashed
    /\ userStates = stateWaitingForTimePeriod
    /\ \E startTime \in SubmitTimes, endTime \in SubmitTimes :
           handleTimePeriod(startTime, endTime)

SubmitNext ==
    \/ handleAddInsulinRatio
    \/ PeriodText
    \/ \E g \in Goroutines, ratio \in NumberInputs : RatioTextBegin(g, ratio)
    \/ \E g \in Goroutines : AddRatioFind(g)
    \/ \E g \in Goroutines : AddRatioCreate(g)
    \/ \E g \in Goroutines : RatioTextFinish(g)

\* ---------------------------------------------------------------- Bot.Start
\* The loop of Bot.Start takes updates from the updates channel.  The
\* revisions of the monolith call handleUpdate in the loop itself
\* (bot.go:359-380, part_005:1156-1177); the revision over UpdateHandler
\* starts a goroutine per update (bot.go:441-464).  A photo's handler waits
\* for the AI provider, retries and backoff included, before it completes.
MaxUpdates == 3

StartRevisions == {"inline", "goroutines"}
UpdateKinds == {"photo", "text"}

StartIdle ==
    /\ dImpl = "none"
    /\ dUpdates = <<>>
    /\ dChan = <<>>
    /\ dLoop = 0

BotStart ==
    /\ dImpl = "none"
    /\ dImpl' \in StartRevisions
    /\ UNCHANGED <<dUpdates, dChan, dLoop, startRest>>

\* Telegram delivers an update of a user into the updates channel
Receive(user, kind) ==
    /\ dImpl # "none"
    /\ Len(dUpdates) < MaxUpdates
    /\ dUpdates' = Append(dUpdates, [user |-> user, kind |-> kind, pc |-> "queued"])
    /\ dChan' = Append(dChan, Len(dUpdates) + 1)
    /\ UNCHANGED <<dImpl, dLoop, startRest>>

\* case update := <-updates: the handler is called in the loop or started
\* as a goroutine
Dispatch ==
    /\ dLoop = 0
    /\ dChan # <<>>
    /\ dChan' = Tail(dChan)
    /\ dUpdates' = [dUpdates EXCEPT ![Head(dChan)].pc = "run"]
    /\ dLoop' = IF dImpl = "inline" THEN Head(dChan) ELSE 0
    /\ UNCHANGED <<dImpl, startRest>>

\* the loop goes back to select when the handler it called returns
Returned(i) == IF dLoop = i THEN 0 ELSE dLoop

\* the handler of update i runs: a text is answered, a photo calls the provider
Handle(i) ==
    /\ i \in 1..Len(dUpdates)
    /\ dUpdates[i].pc = "run"
    /\ IF dUpdates[i].kind = "photo"
       THEN /\ dUpdates' = [dUpdates EXCEPT ![i].pc = "waitAI"]
            /\ dLoop' = dLoop
       ELSE /\ dUpdates' = [dUpdates EXCEPT ![i].pc = "done"]
            /\ dLoop' = Returned(i)
    /\ UNCHANGED <<dImpl, dChan, startRest>>

\* the provider call of the photo's handler returns and the handler completes
ProviderReturns(i) ==
    /\ i \in 1..Len(dUpdates)
    /\ dUpdates[i].pc = "waitAI"
    /\ dUpdates' = [dUpdates EXCEPT ![i].pc = "done"]
    /\ dLoop' = Returned(i)
    /\ UNCHANGED <<dImpl, dChan, startRest>>

StartNext ==
    \/ BotStart
    \/ \E user \in Users, kind \in UpdateKinds : Receive(user, kind)
    \/ Dispatch
    \/ \E i \in 1..MaxUpdates : Handle(i)
    \/ \E i \in 1..MaxUpdates : ProviderReturns(i)

\* ------------------------------------------------- confidence of an analysis
\* at most this many analyses are stored
MaxAnalyses == 3

\* what the provider puts in the confidence field of its JSON answer; "" is an
\* answer without the field
ConfidenceLabels == {"high", "medium", "low", "HIGH", "", "certain"}

\* strings.ToLower
ToLower(label) == IF label = "HIGH" THEN "high" ELSE label

\* the switch of AnalyzeFood that turns the label into the stored score, in
\* tenths
ConfidenceScoreLow(label) == 3
ConfidenceScore(label) ==
    IF ToLower(label) = "high" THEN 9
    ELSE IF ToLower(label) = "medium" THEN 6
    ELSE IF ToLower(label) = "low" THEN 3
    ELSE 5

\* the switch of PhotoHandler.Handle that turns the stored score into the
\* level written in the result message
confidenceText(score) ==
    IF score >= 8 THEN "high"
    ELSE IF score >= 6 THEN "medium"
    ELSE "low"

ConfidenceIdle ==
    /\ fLabel = "(none)"
    /\ fConfidences = <<>>
    /\ fShown = "(none)"

\* AnalyzeFood converts the label of the result and stores the row
StoreConfidence(label) ==
    /\ Len(fConfidences) < MaxAnalyses
    /\ fLabel' = label
    /\ fConfidences' = Append(fConfidences, ConfidenceScore(label))
    /\ fShown' = "(none)"
    /\ UNCHANGED <<botVars, retryVars, imageVars, jsonVars, settingsVars, managerVars,
                   registerVars, submitVars, startVars>>

\* PhotoHandler.Handle writes the result message for the row just stored
ShowConfidence ==
    /\ fConfidences # <<>>
    /\ fShown' = confidenceText(fConfidences[Len(fConfidences)])
    /\ UNCHANGED <<fLabel, fConfidences, botVars, retryVars, imageVars, jsonVars,
                   settingsVars, managerVars, registerVars, submitVars, startVars>>

ConfidenceNext ==
    \/ \E label \in ConfidenceLabels : StoreConfidence(label)
    \/ ShowConfidence

\* ------------------------------------------ the services called one by one
\* InsulinService.AddRatio, the delete callback of Bot and
\* FoodAnalysisService.AnalyzeFood over one table of periods, with clock times
\* that allow three periods to cover the day and two periods to lie apart

\* at most this many periods are created
MaxPeriods == 3

\* the periods submitted, <<start, end, ratio>> with the ratio in tenths of a
\* unit per bread unit
PeriodInputs ==
    {<<<<8, 0>>, <<12, 0>>, 15>>, <<<<12, 0>>, <<20, 0>>, 10>>,
     <<<<20, 0>>, <<8, 0>>, 8>>, <<<<20, 0>>, <<0, 0>>, 12>>,
     <<<<0, 0>>, <<8, 0>>, 12>>}

\* time.Now() of an analysis, in minutes of the day
LookupTimes == {360, 600, 720}

\* the coverage line of SendInsulinRatioMenu
CoverageText(rows) ==
    IF rows = {} THEN "no ratios"
    ELSE IF SumMinutes(rows) < 24 * 60 THEN "less than 24 hours"
    ELSE IF SumMinutes(rows) > 24 * 60 THEN "more than 24 hours"
    ELSE "covers 24 hours"

\* InsulinService.AddRatio(ctx, userID, startTime, endTime, ratio)
AddRatio(startTime, endTime, ratio) ==
    LET err == AddRatioErr(ratios, User, startTime, endTime)
    IN  /\ ~crashed
        /\ nextID <= MaxPeriods
        /\ ratios' = AddRatioDB(ratios, nextID, User, startTime, endTime, ratio)
        /\ nextID' = IF err = "" THEN nextID + 1 ELSE nextID
        /\ reply' = IF err = "" THEN "ratio saved" ELSE err
        /\ analysis' = NoAnalysis
        /\ changeset' = NoChangeset
        /\ UNCHANGED <<userStates, tempData, crashed, retryVars, auxVars>>

\* the insulin_ratio callback with the menu text it sends
SendInsulinRatioMenu ==
    /\ ~crashed
    /\ Handled(CoverageText(RowsOf(ratios, User)), ratios, userStates, tempData)

\* FoodAnalysisService.AnalyzeFood at the instant now
AnalyzeFood(now) ==
    /\ ~crashed
    /\ \E ai \in AIOutcomes :
       \E insulinRatio \in FoundRatios(ratios, User, now) :
        LET carbs == IF ai.kind = "food" THEN ai.carbs ELSE 0
        IN  IF ai.kind = "error"
            THEN Handled("failed to analyze food image", ratios, userStates, tempData)
            ELSE /\ analysis' = FoodAnalysis(User, 0, ai.estWeight, carbs,
                                             ai.kind = "nofood", insulinRatio, now)
                 /\ reply' = "analysis saved"
                 /\ changeset' = NoChangeset
                 /\ UNCHANGED <<ratios, nextID, userStates, tempData, crashed,
                                retryVars, auxVars>>

RatiosNext ==
    \/ \E p \in PeriodInputs : AddRatio(p[1], p[2], p[3])
    \/ SendInsulinRatioMenu
    \/ CallbackDeleteRatio
    \/ CallbackConfirmChanges
    \/ \E now \in LookupTimes : AnalyzeFood(now)

Init ==
    /\ BotInit /\ SettingsInit /\ RetryIdle /\ ImageIdle /\ JSONIdle /\ ManagerIdle
    /\ RegisterIdle /\ SubmitIdle /\ StartIdle /\ ConfidenceIdle

Next == BotNext

Spec == Init /\ [][Next]_vars

SpecConfidence == Init /\ [][ConfidenceNext]_vars

SpecRatios == Init /\ [][RatiosNext]_vars

SpecRetry == Init /\ [][RetryNext]_vars

SpecImage == Init /\ [][ImageNext]_vars

\* Bot.Start with a fair scheduler: the loop takes an update that waits in
\* the channel when it is at select, and a started handler runs.  Nothing
\* makes the AI provider answer.
SpecStartFair ==
    /\ Init /\ [][StartNext]_vars
    /\ WF_vars(Dispatch)
    /\ \A i \in 1..MaxUpdates : WF_vars(Handle(i))

SpecSubmit == Init /\ [][SubmitNext]_vars

SpecRegister == Init /\ [][RegisterNext]_vars

SpecExpiry == Init /\ [][ExpiryNext]_vars

SpecManager == Init /\ [][ManagerNext]_vars

SpecText == Init /\ [][TextNext]_vars

SpecHandlers == Init /\ [][UpdateHandlerNext]_vars

SpecJSON == Init /\ [][JSONNext]_vars

\* ======================================================== stated properties
\* minute m lies in the half-open range [s, e) of minutes of the day, which
\* runs through midnight when e < s and is empty when s = e
InRange(m, s, e) ==
    IF s < e THEN s <= m /\ m < e
    ELSE IF s > e THEN m >= s \/ m < e
    ELSE FALSE

\* the stored period r contains minute m
Contains(r, m) == InRange(m, timeToMinutes(r.StartTime), timeToMinutes(r.EndTime))

\* two ranges share a minute: both are non-empty and one starts inside the other
SharesMinute(s1, e1, s2, e2) ==
    /\ s1 # e1
    /\ s2 # e2
    /\ (InRange(s1, s2, e2) \/ InRange(s2, s1, e1))

\* the same for a stored period and a typed one
RowSharesMinute(r, startTime, endTime) ==
    SharesMinute(timeToMinutes(r.StartTime), timeToMinutes(r.EndTime),
                 timeToMinutes(startTime), timeToMinutes(endTime))

\* the periods a user can type that time.Parse accepts, start and end distinct
ValidPeriods ==
    {p \in TimeInputs \X TimeInputs : ParseOK(p[1]) /\ ParseOK(p[2]) /\ p[1] # p[2]}

\* every stored period of the user has distinct start and end
NonEmptyPeriods == \A r \in RowsOf(ratios, User) : r.StartTime # r.EndTime

\* C1: after any sequence of successful AddRatio, UpdateRatio and DeleteRatio
\* calls the stored periods of the user are pairwise disjoint as wraparound
\* aware ranges of minutes and cover at most 1440 minutes in total
C1_DisjointAndBounded ==
    /\ \A a, b \in RowsOf(ratios, User) :
          a # b => ~RowSharesMinute(a, b.StartTime, b.EndTime)
    /\ SumMinutes(RowsOf(ratios, User)) <= 24 * 60

\* C2: with exactly one stored period A, AddRatio(B) returns the overlap error
\* if and only if A and B share a minute (A and B with distinct start and end)
C2_OverlapErrorIffShared ==
    \A a \in RowsOf(ratios, User) : \A b \in ValidPeriods :
        (RowsOf(ratios, User) = {a} /\ NonEmptyPeriods) =>
            ((AddRatioErr(ratios, User, b[1], b[2])
                 = "time period overlaps with existing ratio")
             <=> RowSharesMinute(a, b[1], b[2]))

\* C3: with exactly one stored period (s, e, r) the lookup of an analysis gives
\* r at every minute inside [s, e) and no ratio at every minute outside it,
\* minute e included
C3_LookupHalfOpen ==
    \A r \in RowsOf(ratios, User) :
        (analysis # NoAnalysis /\ RowsOf(ratios, User) = {r} /\ NonEmptyPeriods) =>
            analysis.InsulinRatio = (IF Contains(r, analysis.At) THEN r.Ratio ELSE 0)

\* C4: when no stored period contains the analysis instant the created record
\* carries ratio 0 and dose 0 and the reply shows the not-configured notice;
\* a non-zero dose is never reported without a matching stored period
C4_NoPeriodNoDose ==
    (/\ analysis # NoAnalysis
     /\ reply # "no food"
     /\ NonEmptyPeriods
     /\ ~\E r \in RowsOf(ratios, User) : Contains(r, analysis.At))
    => (/\ analysis.InsulinRatio = 0
        /\ analysis.InsulinUnits = 0
        /\ reply = "ratio not configured")

\* C5: in the edit flow, a ratio typed for a new range that shares a minute
\* with another period of the user changes no stored period (there is no
\* confirmed changeset at that step)
C5_NoChangeBeforeConfirm ==
    [][(/\ TextNumber
        /\ "isEdit" \in tempData.keys
        /\ tempData.isEdit
        /\ \E r \in RowsOf(ratios, User) :
              /\ r.ID # tempData.ratioID
              /\ RowSharesMinute(r, tempData.startTime, tempData.endTime))
       => ratios' = ratios]_vars

\* the periods that share the start or the end boundary of period d
Adjacent(db, d) ==
    {n \in RowsOf(db, d.UserID) \ {d} :
        n.EndTime = d.StartTime \/ n.StartTime = d.EndTime}

\* neighbour n after it has taken over the range of the deleted period d
Merged(n, d) ==
    IF n.EndTime = d.StartTime
    THEN [n EXCEPT !.EndTime = d.EndTime]
    ELSE [n EXCEPT !.StartTime = d.StartTime]

\* C6: confirming the proposed deletion of a period that has exactly one
\* adjacent neighbour removes the period and leaves the neighbour with the
\* union of both ranges
C6_ConfirmedDeleteMerges ==
    [][\A d \in RowsOf(ratios, User) : \A n \in Adjacent(ratios, d) :
         (/\ CallbackConfirmChanges
          /\ reply = "confirm changes"
          /\ changeset.ratiosToDelete = <<d.ID>>
          /\ "isEdit" \notin tempData.keys
          /\ NonEmptyPeriods
          /\ Adjacent(ratios, d) = {n})
         => ratios' = (ratios \ {d, n}) \cup {Merged(n, d)}]_vars

\* fn() results after which the call was made again
Reinvoked == {rReturned[i] : i \in 1..(Len(rReturned) - 1)}

\* the fn() result out ended the call: it is the last one and it was returned
ReturnedAtOnce(out) ==
    \A i \in 1..Len(rReturned) :
        rReturned[i] = out => (i = Len(rReturned) /\ rPc = "done" /\ rResult = out)

C8_TwoRateLimitsThenSuccess ==
    /\ (Len(rReturned) >= 3 /\ SubSeq(rReturned, 1, 3) = <<"e429", "e429", "ok">>)
          => (rPc = "done" /\ rResult = "" /\ rCalls = 3 /\ Len(rReturned) = 3)
    /\ (rReturned = <<"e429", "e429">> /\ rPc = "done")
          => rResult = "context canceled"

\* the third call succeeded after two rate-limit errors
C8_Witness ==
    /\ rReturned = <<"e429", "e429", "ok">>
    /\ rPc = "done"
    /\ rResult = ""

\* every delay is longer than the one before it
DelaysIncrease == \A i \in 1..(Len(rDelays) - 1) : rDelays[i] < rDelays[i + 1]

\* the call ran to its end, uncancelled, with every fn() result in the set errs
AllFailed(errs) ==
    /\ rPc = "done"
    /\ rResult # "context canceled"
    /\ \A i \in 1..Len(rReturned) : rReturned[i] \in errs

\* C9: when every attempt fails with a retryable error (429 or 5xx) the call
\* with limit 3 stops after exactly 3 calls of fn and returns an error, each
\* delay longer than the previous one; fn is never called without bound
C9_ThreeCallsThenError ==
    /\ AllFailed({"e429", "e5xx"}) => (rCalls = RetryLimit /\ rResult # "")
    /\ DelaysIncrease
    /\ rCalls <= RetryLimit

\* C9 as the code has it: when every attempt fails with an error the revision
\* retries, the revision of user_service.go stops after exactly 3 calls of fn
\* and the revision of ai_service.go after exactly 4 (one call and 3 retries);
\* both return an error, each delay is longer than the previous one, and fn is
\* never called more than 4 times
C9_CallsPerRevision ==
    /\ (rImpl = "user_service" /\ AllFailed({"e429", "e5xx", "plain"}))
          => (rCalls = RetryLimit /\ rResult # "")
    /\ (rImpl = "ai_service" /\ AllFailed({"e429"}))
          => (rCalls = RetryLimit + 1 /\ rResult = "max retries exceeded")
    /\ DelaysIncrease
    /\ rCalls <= RetryLimit + 1

\* four rate-limit errors in a row ended the call of the ai_service.go revision
C9_Witness ==
    /\ rImpl = "ai_service"
    /\ rPc = "done"
    /\ rReturned = <<"e429", "e429", "e429", "e429">>
    /\ rDelays = <<1, 2, 4>>

\* C10: a context cancelled during a backoff delay makes retryWithBackoff
\* return the cancellation error, without waiting the delay out and without
\* another call of fn
C10_CancelAbortsBackoff ==
    [][(rPc = "backoff" /\ rCancelled /\ rPc' # rPc)
       => (/\ rPc' = "done"
           /\ rResult' = "context canceled"
           /\ rCalls' = rCalls
           /\ rWaited' = rWaited)]_vars

\* a call returned the cancellation error out of its second backoff delay
C10_Witness ==
    /\ rPc = "done"
    /\ rResult = "context canceled"
    /\ rCancelled
    /\ Len(rDelays) = 2
    /\ rWaited = rDelays[1]
    /\ rCalls = 2

\* the weight estimation sub-call was made and failed
EstimateFailedInLog == \E i \in 1..Len(iLog) : iLog[i].call = "estimate" /\ ~iLog[i].ok

\* C11: a call with a declared weight <= 0 whose weight estimation fails still
\* performs the image analysis, with weight 0, and returns what the analysis
\* gave; the estimation failure is not returned as the error of the call
C11_EstimateFailureTolerated ==
    (iPc = "done" /\ iIn.weight <= 0 /\ EstimateFailedInLog)
    => (/\ \E i \in 1..Len(iLog) : iLog[i].call = "analyze" /\ iLog[i].weight = 0
        /\ iOut.err \in {"", "analysis failed"})

\* number of positions p..i of s holding the symbol c
CountIn(s, p, i, c) == Cardinality({k \in p..i : s[k] = c})

\* the position of the brace that closes the one at p: the first position
\* after which as many braces were closed as opened; 0 when there is none
ClosingBrace(s, p) ==
    LET closes(i) == CountIn(s, p, i, "{") = CountIn(s, p, i, "}")
    IN  IF \E i \in p..Len(s) : closes(i)
        THEN CHOOSE i \in p..Len(s) : closes(i) /\ \A k \in p..(i - 1) : ~closes(k)
        ELSE 0

\* the substring of the input from its first opening brace to the brace
\* closing it, empty when there is no opening brace or it is never closed
BraceMatched(s) ==
    LET p == Index(s, "{")
    IN  IF p = 0 \/ ClosingBrace(s, p) = 0 THEN <<>>
        ELSE SubSeq(s, p, ClosingBrace(s, p))

\* C12: for every input text extractJSON returns exactly the substring of the
\* input from the first opening brace to the brace that closes it by depth
\* counting, and the empty string when there is none
C12_ExtractsBraceMatched ==
    jImpl # "none" => jOut = BraceMatched(jIn)

\* C13: when the provider answers with the no-food sentinel (carbs 0 and the
\* marker), with or without a weight, the analysis succeeds, the photo handler
\* answers with the no-food message and the user's state is reset to none
C13_NoFoodIsTerminalSuccess ==
    (analysis # NoAnalysis /\ analysis.Carbs = 0 /\ analysis.NoFoodText)
    => (reply = "no food" /\ userStates = stateNone)

\* C14: when the food analysis fails with a provider error the photo handler
\* sends the apology, creates no analysis record and resets the user's state
\* to none
C14_ProviderErrorResetsState ==
    reply = "analysis failed" => (analysis = NoAnalysis /\ userStates = stateNone)

\* what the photo handler answers once the provider was called
AnalysisReplies == {"analysis failed", "no food", "dose", "ratio not configured"}

\* C16: a photo that arrives while the user's state is not analyzing_food is
\* refused with the prompt: no provider call is made and no analysis record
\* is created
C16_PhotoOnlyWhenArmed ==
    [][userStates # stateAnalyzingFood
       => /\ analysis' = NoAnalysis
          /\ reply' \notin AnalysisReplies
          /\ PhotoHandlerHandle => reply' = "press analyze food first"]_vars

\* the states in which Bot awaits a text
AwaitingStates ==
    {stateWaitingForBloodSugar, stateWaitingForTimePeriod,
     stateWaitingForInsulinRatio, stateWaitingForActiveInsulinTime}

\* the corrective messages sent for a text that fails validation
ValidationReplies ==
    {"enter a number", "bad period format", "bad start time", "bad end time",
     "ratio must be positive", "bad duration format", "bad hours", "bad minutes",
     "duration must not be zero", "invalid start time format",
     "invalid end time format", "time period overlaps with existing ratio",
     "total time coverage exceeds 24 hours"}

\* C15: in each awaiting state a text that fails validation leaves the user's
\* state and temp data as they were and persists nothing
C15_RejectedInputChangesNothing ==
    [][(userStates \in AwaitingStates /\ reply' \in ValidationReplies)
       => UNCHANGED <<userStates, tempData, ratios, nextID, bloodSugar,
                      activeInsulinTime>>]_vars

\* a ratio was refused by AddRatio while the user awaits the ratio value
C15_Witness ==
    /\ userStates = stateWaitingForInsulinRatio
    /\ reply \in {"time period overlaps with existing ratio",
                  "total time coverage exceeds 24 hours"}
    /\ ratios # {}

\* every awaiting state rejects some text
C15_WitnessBloodSugar == userStates = stateWaitingForBloodSugar /\ reply = "enter a number"
C15_WitnessDuration ==
    userStates = stateWaitingForActiveInsulinTime /\ reply = "duration must not be zero"

\* C17: an operation of the state manager performed for one user leaves the
\* stored state, temp data and weight of every other user unchanged, however
\* the operations of concurrently running goroutines interleave
C17_OtherUsersUntouched ==
    [][\A b \in Users :
          b # mActor'
          => /\ mUserStates'[b] = mUserStates[b]
             /\ mTempData'[b] = mTempData[b]
             /\ mUserWeights'[b] = mUserWeights[b]]_vars

\* user 1's temp data was cleared while user 2 holds state, weight and temp
\* data, and a goroutine is in the middle of SetTempData
C17_Witness ==
    /\ mActor = 1
    /\ ~mTempData[1].exists
    /\ mTempData[2].exists /\ mTempData[2].data["startTime"] # Absent
    /\ GetUserState(2) = stateAnalyzingFood
    /\ GetUserWeight(2) = 150
    /\ \E g \in Goroutines : mPc[g] = "save"

\* C18: RegisterUser is idempotent per telegram id, also for calls that run
\* concurrently: there is never more than one user with an id, and every
\* finished call returned, without error, the one user with its id
C18_RegisterIdempotent ==
    /\ \A t \in TelegramIDs : Cardinality(UsersWith(t)) <= 1
    /\ \A g \in Goroutines :
          regPc[g] = "done"
          => /\ regOut[g].err = ""
             /\ UsersWith(regArg[g]) = {[ID |-> regOut[g].ID, TelegramID |-> regArg[g]]}

\* C19: when two texts of one user that each commit the same period are
\* handled concurrently, at most one of the two identical periods is stored
C19_DoubleSubmitStoresOne ==
    \A a, b \in RowsOf(ratios, User) :
        (a.StartTime = b.StartTime /\ a.EndTime = b.EndTime) => a.ID = b.ID

\* update i waits in the channel while the analysis of another user's photo
\* waits for the provider
QueuedBehindAnalysis(i) ==
    /\ i \in 1..Len(dUpdates)
    /\ dUpdates[i].pc = "queued"
    /\ dUpdates[i].kind = "text"
    /\ \E j \in 1..Len(dUpdates) :
          dUpdates[j].pc = "waitAI" /\ dUpdates[j].user # dUpdates[i].user

\* the handler of update i has completed
Completed(i) == i \in 1..Len(dUpdates) /\ dUpdates[i].pc = "done"

\* C20: while one user's food analysis waits for the AI provider, an update
\* of another user is dispatched and handled to completion, whether or not
\* the provider ever answers
C20_OtherUserNotBlocked ==
    \A i \in 1..MaxUpdates :
        QueuedBehindAnalysis(i) ~> Completed(i)

\* C21: while a period is awaited, an end time of 24:00 is accepted as the end
\* of the day (stored in the temp data, the ratio is awaited next), while an
\* end time 24:MM with MM other than 00 and a start time with hour 24 are
\* answered with a corrective message that changes nothing
C21_Hour24OnlyAsEndOfDay ==
    (~crashed /\ userStates = stateWaitingForTimePeriod) =>
        /\ \A startTime \in {t \in TimeInputs : ParseOK(t)} :
              ENABLED (/\ handleTimePeriod(startTime, <<24, 0>>)
                       /\ userStates' = stateWaitingForInsulinRatio
                       /\ tempData'.startTime = startTime
                       /\ tempData'.endTime = <<24, 0>>)
        /\ ENABLED (/\ handleTimePeriod(<<20, 0>>, <<24, 30>>)
                    /\ reply' \in ValidationReplies
                    /\ UNCHANGED <<userStates, tempData>>)
        /\ ENABLED (/\ handleTimePeriod(<<24, 0>>, <<8, 0>>)
                    /\ reply' \in ValidationReplies
                    /\ UNCHANGED <<userStates, tempData>>)

\* C22: the delete callback for the only period of the user removes it at
\* once: the user has no period left, no merge is proposed and no other row
\* is changed
C22_DeleteOnlyPeriod ==
    [][\A d \in RowsOf(ratios, User) :
         (/\ RowsOf(ratios, User) = {d}
          /\ reply' # "ratio not found"
          /\ CallbackDeleteRatio)
         => /\ ratios' = ratios \ {d}
            /\ RowsOf(ratios', User) = {}
            /\ reply' = "ratio deleted"
            /\ changeset' = NoChangeset
            /\ tempData' = tempData]_vars

C22_Witness ==
    /\ reply = "ratio deleted"
    /\ RowsOf(ratios, User) = {}
    /\ changeset = NoChangeset
    /\ nextID = 2

\* C23: when no two periods of the user share a boundary, the delete callback
\* for one of them removes that period, proposes no merge and leaves every
\* other period as it was
C23_DeleteApartPeriod ==
    [][(/\ RowsOf(ratios, User) # {}
        /\ \A d \in RowsOf(ratios, User) : Adjacent(ratios, d) = {}
        /\ reply' # "ratio not found"
        /\ CallbackDeleteRatio)
       => /\ \E d \in RowsOf(ratios, User) : ratios' = ratios \ {d}
          /\ changeset' = NoChangeset
          /\ reply' = "ratio deleted"]_vars

\* C24: a service built without a usable provider (no key given, or the
\* client could not be created) does not exist: NewAIService fails, so no
\* AnalyzeFoodImage call is ever made on such a service
C24_NoProviderFailsConstruction ==
    (iPc # "idle" /\ ~iIn.hasGeminiKey /\ ~iIn.hasOpenAIKey) => iPc = "panic"

\* the call asked for a provider the service does not have while it has the
\* other one; Other is the provider it has
PreferredMissing ==
    \/ iIn.useOpenAI /\ ~iIn.hasOpenAIKey /\ iIn.hasGeminiKey
    \/ ~iIn.useOpenAI /\ ~iIn.hasGeminiKey /\ iIn.hasOpenAIKey

OtherProvider == IF iIn.hasGeminiKey THEN "gemini" ELSE "openai"

\* C25: a call whose preferred provider is not configured is served by the
\* other configured provider: every sub-call (weight estimation and image
\* analysis) goes to that one provider, no availability error is returned, and
\* when the provider answers the call returns its result without error
C25_FallbackServesBothCalls ==
    (iPc = "done" /\ PreferredMissing)
    => /\ Len(iLog) >= 1
       /\ \A i \in 1..Len(iLog) : iLog[i].provider = OtherProvider
       /\ iOut.err \in {"", "failed to estimate weight", "analysis failed"}
       /\ (\A i \in 1..Len(iLog) : iLog[i].ok) => iOut.err = ""

\* a call that asked for OpenAI on a service with only a Gemini client made
\* both sub-calls and returned a result
C25_Witness ==
    /\ iPc = "done"
    /\ iIn.useOpenAI /\ ~iIn.hasOpenAIKey /\ iIn.hasGeminiKey
    /\ Len(iLog) = 2
    /\ iLog[1].provider = "gemini" /\ iLog[2].provider = "gemini"
    /\ iOut.err = ""

\* the three periods of the day, in the order they are added
Morning == [ID |-> 1, UserID |-> User, StartTime |-> <<8, 0>>, EndTime |-> <<12, 0>>,
            Ratio |-> 15]
Daytime == [ID |-> 2, UserID |-> User, StartTime |-> <<12, 0>>, EndTime |-> <<20, 0>>,
            Ratio |-> 10]
Night   == [ID |-> 3, UserID |-> User, StartTime |-> <<20, 0>>, EndTime |-> <<8, 0>>,
            Ratio |-> 8]

\* C26: AddRatio accepts 08:00-12:00 at 1.5, then 12:00-20:00 at 1.0, then
\* 20:00-08:00 at 0.8; with the three stored the covered time is exactly 1440
\* minutes, the menu reports full 24-hour coverage, and an analysis at 06:00
\* finds the ratio 0.8
C26_FullDayScenario ==
    [][/\ (ratios = {} /\ nextID = 1 /\ AddRatio(<<8, 0>>, <<12, 0>>, 15))
          => ratios' = {Morning}
       /\ (ratios = {Morning} /\ nextID = 2 /\ AddRatio(<<12, 0>>, <<20, 0>>, 10))
          => ratios' = {Morning, Daytime}
       /\ (ratios = {Morning, Daytime} /\ nextID = 3 /\ AddRatio(<<20, 0>>, <<8, 0>>, 8))
          => /\ ratios' = {Morning, Daytime, Night}
             /\ SumMinutes(RowsOf(ratios', User)) = 1440
       /\ (ratios = {Morning, Daytime, Night} /\ SendInsulinRatioMenu)
          => reply' = "covers 24 hours"
       /\ (ratios = {Morning, Daytime, Night} /\ AnalyzeFood(360)
           /\ reply' = "analysis saved")
          => analysis'.InsulinRatio = 8]_vars

\* the three periods are stored and an analysis at 06:00 was saved
C26_Witness ==
    /\ ratios = {Morning, Daytime, Night}
    /\ reply = "analysis saved"
    /\ analysis.At = 360
    /\ analysis.InsulinRatio = 8

\* C27: every analysis row stores bread units equal to carbs / 12 (tenths
\* here) and a dose equal to the bread units times the ratio the lookup found
\* for the instant of the analysis (hundredths here); carbs 60 with ratio 1.2
\* gives 5.0 bread units and a dose of 6.0
C27_DoseFromBreadUnits ==
    /\ BreadUnits(60) = 50 /\ InsulinUnits(BreadUnits(60), 12) = 600
    /\ analysis # NoAnalysis
       => /\ analysis.BreadUnits * 12 = analysis.Carbs * 10
          /\ analysis.InsulinRatio \in FoundRatios(ratios, User, analysis.At)
          /\ analysis.InsulinUnits = analysis.BreadUnits * analysis.InsulinRatio

\* an analysis of 60 g of carbohydrates was saved while the ratio 1.2 applied
C27_Witness ==
    /\ reply = "analysis saved"
    /\ analysis.Carbs = 60
    /\ analysis.InsulinRatio = 12
    /\ analysis.BreadUnits = 50
    /\ analysis.InsulinUnits = 600

\* C28: every stored confidence is one of the three constants of the labels
\* high, medium and low, and the level written in the result message is the
\* label the provider returned
C28_ThreeConstants ==
    /\ \A i \in 1..Len(fConfidences) : fConfidences[i] \in {9, 6, 3}
    /\ fShown # "(none)" => fShown = ToLower(fLabel)

\* C28 as the code has it: four constants, the fourth for a label that is not
\* one of the three
C28_FourConstants ==
    /\ \A i \in 1..Len(fConfidences) : fConfidences[i] \in {9, 6, 3, 5}
    /\ fConfidences # <<>> =>
         fConfidences[Len(fConfidences)] =
            (IF ToLower(fLabel) = "high" THEN 9
             ELSE IF ToLower(fLabel) = "medium" THEN 6
             ELSE IF ToLower(fLabel) = "low" THEN 3 ELSE 5)
    /\ fShown # "(none)" =>
         fShown = (IF ToLower(fLabel) \in {"high", "medium", "low"}
                   THEN ToLower(fLabel) ELSE "low")

\* an answer without a confidence label was stored as 0.5 and shown as low
C28_Witness ==
    /\ fLabel = ""
    /\ fConfidences # <<>>
    /\ fConfidences[Len(fConfidences)] = 5
    /\ fShown = "low"

\* C29: once 24 hours have passed without a write, with either manager,
\* GetUserState returns none, GetTempData reports every key absent and
\* GetUserWeight returns 0, for every user
C29_IdleEntriesExpire ==
    mIdle => \A u \in Users :
                /\ GetUserState(u) = stateNone
                /\ \A k \in TempKeys : ~GetTempData(u, k)
                /\ GetUserWeight(u) = 0

\* C30: while a period is awaited a valid "start-end" text puts start and end
\* in the user's temp data and makes the ratio awaited; the valid ratio that
\* follows, when AddRatio accepts it, stores exactly one new period with that
\* start, that end and that ratio, removes the temp data and sets the state
\* back to none
C30_AddFlowThreadsPeriod ==
    [][/\ \A startTime \in TimeInputs, endTime \in TimeInputs :
            (/\ userStates = stateWaitingForTimePeriod
             /\ ParseOK(startTime) /\ ParseOK(endTime)
             /\ handleTimePeriod(startTime, endTime))
            => /\ userStates' = stateWaitingForInsulinRatio
               /\ tempData'.exists
               /\ {"startTime", "endTime"} \subseteq tempData'.keys
               /\ tempData'.startTime = startTime
               /\ tempData'.endTime = endTime
               /\ ratios' = ratios
       /\ \A ratio \in NumberInputs :
            (/\ userStates = stateWaitingForInsulinRatio
             /\ handleInsulinRatio(ratio)
             /\ reply' = "ratio saved")
            => /\ \E r \in ratios' \ ratios :
                    /\ ratios' = ratios \cup {r}
                    /\ r.UserID = User
                    /\ r.StartTime = tempData.startTime
                    /\ r.EndTime = tempData.endTime
                    /\ r.Ratio = ratio
               /\ ~tempData'.exists
               /\ userStates' = stateNone]_vars

\* a period went through both steps of the add flow and is stored
C30_Witness ==
    /\ reply = "ratio saved"
    /\ userStates = stateNone
    /\ ~tempData.exists
    /\ \E r \in RowsOf(ratios, User) :
          r.StartTime = <<8, 0>> /\ r.EndTime = <<20, 0>> /\ r.Ratio = 15

\* every minute of the stored period r lies in the typed range
Inside(r, startTime, endTime) ==
    LET s      == timeToMinutes(startTime)
        lenNew == (timeToMinutes(endTime) - s) % (24 * 60)
        lenR   == (timeToMinutes(r.EndTime) - timeToMinutes(r.StartTime)) % (24 * 60)
        off    == (timeToMinutes(r.StartTime) - s) % (24 * 60)
    IN  lenNew > 0 /\ lenR > 0 /\ off + lenR <= lenNew

\* the ids a changeset lists for deletion, and for a change of range
ListedForDelete(cs) == {cs.ratiosToDelete[i] : i \in 1..Len(cs.ratiosToDelete)}
ListedForUpdate(cs) == {cs.ratiosToUpdate[i].ID : i \in 1..Len(cs.ratiosToUpdate)}

\* the step handles a valid period typed in the edit flow, the stored periods
\* being non-empty and pairwise disjoint
EditPeriodTyped ==
    /\ userStates = stateWaitingForTimePeriod
    /\ "isEdit" \in tempData.keys
    /\ tempData.isEdit
    /\ reply' \in {"confirm changes", "enter ratio"}
    /\ NonEmptyPeriods
    /\ \A a, b \in RowsOf(ratios, User) :
          a # b => ~RowSharesMinute(a, b.StartTime, b.EndTime)
    /\ tempData'.startTime # tempData'.endTime

\* C31: in the changeset of an edit every other period that lies entirely
\* inside the typed range is listed for deletion, every other period that
\* shares only some of its minutes with it is listed for a change of range,
\* and a period that shares no minute with it is not listed at all
C31_ChangesetClassifies ==
    [][EditPeriodTyped =>
         \A r \in RowsOf(ratios, User) :
            r.ID # tempData.ratioID =>
               LET del == r.ID \in ListedForDelete(changeset')
                   upd == r.ID \in ListedForUpdate(changeset')
               IN  IF Inside(r, tempData'.startTime, tempData'.endTime)
                   THEN del /\ ~upd
                   ELSE IF RowSharesMinute(r, tempData'.startTime, tempData'.endTime)
                   THEN upd /\ ~del
                   ELSE ~del /\ ~upd]_vars

\* the listed deletions and range adjustments of changeset cs are in table db
Applied(cs, db) ==
    /\ \A id \in ListedForDelete(cs) : ~\E r \in RowsOf(db, User) : r.ID = id
    /\ \A i \in 1..Len(cs.ratiosToUpdate) :
         \E r \in RowsOf(db, User) :
            /\ r.ID = cs.ratiosToUpdate[i].ID
            /\ r.StartTime = cs.ratiosToUpdate[i].StartTime
            /\ r.EndTime = cs.ratiosToUpdate[i].EndTime

\* C32: once the user confirms a presented changeset, its deletions and range
\* adjustments are applied to the stored periods and the state is back at
\* idle. The handler of the confirm callback is the only code that runs in
\* answer to the confirmation, so the flow has to be complete when it returns.
C32_ConfirmApplies ==
    [][(/\ reply = "confirm changes"
        /\ changeset # NoChangeset
        /\ NonEmptyPeriods
        /\ CallbackConfirmChanges)
       => (Applied(changeset, ratios') /\ userStates' = stateNone)]_vars

\* C33: each shrink entry of an edit changeset gives the affected period a
\* non-empty range that lies inside its old range and shares no minute with
\* the typed range
C33_ShrinkStaysInsideAndApart ==
    [][EditPeriodTyped =>
         \A i \in 1..Len(changeset'.ratiosToUpdate) :
            LET u == changeset'.ratiosToUpdate[i]
            IN  \A r \in RowsOf(ratios, User) :
                   r.ID = u.ID =>
                      /\ u.StartTime # u.EndTime
                      /\ Inside(u, r.StartTime, r.EndTime)
                      /\ ~RowSharesMinute(u, tempData'.startTime, tempData'.endTime)]_vars

\* the stored periods of the user that match the lookup at minute m
Matching(db, m) == {r \in RowsOf(db, User) : RatioMatches(r, m)}

\* no two stored periods of the user share a minute
PairwiseApart(db) ==
    \A a, b \in RowsOf(db, User) :
        a # b => ~RowSharesMinute(a, b.StartTime, b.EndTime)

\* C34: over accepted periods that share no minute, at most one stored period
\* matches the lookup of an analysis, also at the minute where one period ends
\* and the next one starts, so the ratio taken does not depend on the order of
\* the rows
C34_LookupUnambiguous ==
    [][\A now \in LookupTimes :
         (/\ NonEmptyPeriods
          /\ PairwiseApart(ratios)
          /\ reply' = "analysis saved"
          /\ AnalyzeFood(now))
         => Cardinality(Matching(ratios, now)) <= 1]_vars

\* C35: the Cancel button (callback insulin_ratio) pressed while a time period
\* or a ratio value is awaited ends the flow: the state is idle afterwards, so
\* a later text is not taken as a period or a ratio
C35_CancelEndsFlow ==
    [][(/\ userStates \in {stateWaitingForTimePeriod, stateWaitingForInsulinRatio}
        /\ CallbackInsulinRatio)
       => userStates' = stateNone]_vars

\* C36: no stored period has a start equal to its end; such an input is
\* rejected at the time-period step or by AddRatio
C36_NoEmptyPeriodStored ==
    \A r \in ratios : r.StartTime # r.EndTime

\* --------------------------------- InsulinService called by two users
\* AddRatio, DeleteRatio and UpdateRatio over one table that holds the periods
\* of both users; row ids come from one sequence

\* at most this many rows are created
MaxRows == 2

\* what a service call leaves behind: its error text and the table
Served(msg, db) ==
    /\ reply' = msg
    /\ ratios' = db
    /\ analysis' = NoAnalysis
    /\ changeset' = NoChangeset
    /\ UNCHANGED <<userStates, tempData, crashed, retryVars, auxVars>>

\* InsulinService.AddRatio called by userID
AddRatioBy(userID, startTime, endTime, ratio) ==
    LET err == AddRatioErr(ratios, userID, startTime, endTime)
    IN  /\ nextID <= MaxRows
        /\ nextID' = IF err = "" THEN nextID + 1 ELSE nextID
        /\ Served(IF err = "" THEN "ratio saved" ELSE err,
                  AddRatioDB(ratios, nextID, userID, startTime, endTime, ratio))

\* InsulinService.DeleteRatio(ctx, userID, ratioID)
DeleteRatio(userID, ratioID) ==
    LET err == DeleteRatioErr(ratios, userID, ratioID)
    IN  /\ UNCHANGED nextID
        /\ Served(IF err = "" THEN "ratio deleted" ELSE err,
                  DeleteRatioDB(ratios, userID, ratioID))

\* InsulinService.UpdateRatio(ctx, userID, ratioID, startTime, endTime, ratio)
UpdateRatio(userID, ratioID, startTime, endTime, ratio) ==
    LET err == UpdateRatioErr(ratios, userID, ratioID, startTime, endTime)
    IN  /\ UNCHANGED nextID
        /\ Served(IF err = "" THEN "ratio updated" ELSE err,
                  UpdateRatioDB(ratios, userID, ratioID, startTime, endTime, ratio))

OwnersNext ==
    \/ \E u \in Users : \E p \in PeriodInputs : AddRatioBy(u, p[1], p[2], p[3])
    \/ \E u \in Users : \E id \in 1..MaxRows : DeleteRatio(u, id)
    \/ \E u \in Users : \E id \in 1..MaxRows : \E p \in PeriodInputs :
          UpdateRatio(u, id, p[1], p[2], p[3])

SpecOwners == Init /\ [][OwnersNext]_vars

\* row id belongs to a user other than u
OwnedByOther(u, id) == \E r \in ratios : r.ID = id /\ r.UserID # u

\* the errors UpdateRatio returns for a range that parses, before it touches
\* the row
ValidationErrors ==
    {"time period overlaps with existing ratio",
     "total time coverage exceeds 24 hours"}

\* C37: DeleteRatio and UpdateRatio called with the id of a period of another
\* user return the not-found error and leave every stored period unchanged
C37_ForeignIdNotFound ==
    [][\A u \in Users : \A id \in 1..MaxRows :
         (OwnedByOther(u, id) /\
            (\/ DeleteRatio(u, id)
             \/ \E p \in PeriodInputs : UpdateRatio(u, id, p[1], p[2], p[3])))
         => (reply' = "insulin ratio not found" /\ ratios' = ratios)]_vars

\* C37 as the code has it: with the id of a period of another user DeleteRatio returns
\* the not-found error; UpdateRatio returns the not-found error when the
\* caller has no period of their own, and otherwise that error or the error of
\* its validation of the new range against the caller's own periods; no
\* stored period of any user changes
C37_ForeignIdRejected ==
    [][\A u \in Users : \A id \in 1..MaxRows :
         OwnedByOther(u, id) =>
            /\ DeleteRatio(u, id)
                 => (reply' = "insulin ratio not found" /\ ratios' = ratios)
            /\ \A p \in PeriodInputs :
                 UpdateRatio(u, id, p[1], p[2], p[3]) =>
                    /\ ratios' = ratios
                    /\ reply' \in ValidationErrors \cup {"insulin ratio not found"}
                    /\ RowsOf(ratios, u) = {}
                          => reply' = "insulin ratio not found"]_vars

\* both users own a period and a call with a foreign id was just refused
C37_Witness ==
    /\ \A u \in Users : RowsOf(ratios, u) # {}
    /\ reply = "insulin ratio not found"

\* goroutine g completes a SetTempData call for user u with a key other than k
SetsOtherKey(g, u, k) ==
    \/ \E k2 \in TempKeys \ {k} : \E v \in TempValues : SetTempData(g, u, k2, v)
    \/ /\ mPc[g] = "save"
       /\ mLocal[g].userID = u
       /\ mLocal[g].map.data[k] = Absent
       /\ saveTempDataMap(g)

\* C38: two SetTempData calls of one user with different keys that overlap in
\* time both take effect: the call that completes last keeps the key the other
\* one has written, with InMemoryManager and with RedisManager
C38_ConcurrentKeysBothKept ==
    [][\A g \in Goroutines : \A u \in Users : \A k \in TempKeys :
         (GetTempData(u, k) /\ SetsOtherKey(g, u, k)) => GetTempData(u, k)']_vars

====
